---- MODULE Spec2Model ----
(***************************************************************************)
(* A model of podcast-go: the Bubble Tea session engine of the terminal    *)
(* program (model.Update and its key handlers), the commands it issues     *)
(* (search, podcast load, sequential download workers) and the dual        *)
(* provider search merge (searchBoth).                                     *)
(*                                                                         *)
(* Strings the program computes on (feed URLs, titles, names) are          *)
(* sequences of one-character strings; strings it only passes around are   *)
(* TLA+ strings.  The Go struct `model` is the record variable m; an       *)
(* Update handler is an operator from (m, msg) to [m, cmd], as in Go where *)
(* Update has a value receiver and returns (tea.Model, tea.Cmd).           *)
(* Rendering state (spinner, progress bar widget, loadingMsg) is not       *)
(* modelled: no handler reads it.                                          *)
(***************************************************************************)
EXTENDS Integers, Sequences, FiniteSets, Bags, TLC

(***************************************************************************)
(* Bounds of the model.                                                    *)
(***************************************************************************)
\* items of a feed document
MaxFeedItems == 2
\* entries of one provider's search response (merge specification)
MaxResults == 2
\* characters of the positional argument (start specification)
MaxArgLen == 3
\* bytes of the longest audio file (download specification)
MaxLongBody == 200
\* commands and download workers running at the same time
MaxInFlight == 2
\* commands the user starts with the enter key in one session
MaxStarts == 2
\* bytes (in units of one Read) of a response body
MaxBody == 1

(***************************************************************************)
(* Program constants.                                                      *)
(***************************************************************************)
MaxNameLen == 100
DefaultWindowHeight == 24

ProviderApple == "apple"
ProviderPodcastIndex == "podcastindex"

stateLoading == "Loading"
stateSearchResults == "SearchResults"
statePreviewPodcast == "PreviewPodcast"
stateSelecting == "Selecting"
statePreviewEpisode == "PreviewEpisode"
stateDownloading == "Downloading"
stateDone == "Done"
stateError == "Error"

(***************************************************************************)
(* Strings as sequences of characters.                                     *)
(***************************************************************************)
UpperLetters ==
  <<"A", "B", "C", "D", "E", "F", "G", "H", "I", "J", "K", "L", "M",
    "N", "O", "P", "Q", "R", "S", "T", "U", "V", "W", "X", "Y", "Z">>

LowerLetters ==
  <<"a", "b", "c", "d", "e", "f", "g", "h", "i", "j", "k", "l", "m",
    "n", "o", "p", "q", "r", "s", "t", "u", "v", "w", "x", "y", "z">>

\* strings.ToLower on one character (ASCII letters)
LowerChar(c) ==
  IF \E i \in 1..Len(UpperLetters) : UpperLetters[i] = c
    THEN LowerLetters[CHOOSE i \in 1..Len(UpperLetters) : UpperLetters[i] = c]
    ELSE c

ToLower(s) == [i \in 1..Len(s) |-> LowerChar(s[i])]

\* strings.TrimSuffix(s, "/"): removes one trailing slash, if there is one
TrimSuffixSlash(s) ==
  IF Len(s) > 0 /\ s[Len(s)] = "/" THEN SubSeq(s, 1, Len(s) - 1) ELSE s

WhiteSpace == {" ", "\t", "\n", "\r"}

RECURSIVE TrimLeft(_)
TrimLeft(s) ==
  IF s # <<>> /\ Head(s) \in WhiteSpace THEN TrimLeft(Tail(s)) ELSE s

RECURSIVE TrimRight(_)
TrimRight(s) ==
  IF s # <<>> /\ s[Len(s)] \in WhiteSpace
    THEN TrimRight(SubSeq(s, 1, Len(s) - 1))
    ELSE s

TrimSpace(s) == TrimRight(TrimLeft(s))

InvalidChars == {"<", ">", ":", "\"", "/", "\\", "|", "?", "*"}

IsValidChar(c) == c \notin InvalidChars

EpisodeLiteral == <<"e", "p", "i", "s", "o", "d", "e">>

\* variant: the empty name is replaced before the characters are removed
sanitizeFilename_FallbackFirst(name) ==
  LET named == IF name = <<>> THEN EpisodeLiteral ELSE name
      stripped == SelectSeq(named, IsValidChar)
      trimmed == TrimSpace(stripped)
  IN IF Len(trimmed) > MaxNameLen THEN SubSeq(trimmed, 1, MaxNameLen) ELSE trimmed

sanitizeFilename(name) ==
  LET stripped == SelectSeq(name, IsValidChar)
      trimmed == TrimSpace(stripped)
      limited == IF Len(trimmed) > MaxNameLen
                   THEN SubSeq(trimmed, 1, MaxNameLen)
                   ELSE trimmed
  IN IF limited = <<>> THEN EpisodeLiteral ELSE limited

Digit(d) == CASE d = 0 -> "0" [] d = 1 -> "1" [] d = 2 -> "2" [] d = 3 -> "3"
              [] d = 4 -> "4" [] d = 5 -> "5" [] d = 6 -> "6" [] d = 7 -> "7"
              [] d = 8 -> "8" [] d = 9 -> "9"

RECURSIVE Itoa(_)
Itoa(n) == IF n < 10 THEN <<Digit(n)>> ELSE Itoa(n \div 10) \o <<Digit(n % 10)>>

\* fmt.Sprintf("%03d", n) for n >= 0: zero-padded to at least three digits
Pad3(n) ==
  LET d == Itoa(n)
  IN IF Len(d) >= 3 THEN d ELSE [i \in 1..(3 - Len(d)) |-> "0"] \o d

\* variant: the file is named by the title alone
currentFile_TitleOnly(ep) ==
  sanitizeFilename(ep.Title) \o <<".", "m", "p", "3">>

\* fmt.Sprintf("%03d - %s.mp3", ep.Index, sanitizeFilename(ep.Title))
currentFile(ep) ==
  Pad3(ep.Index) \o <<" ", "-", " ">> \o sanitizeFilename(ep.Title)
    \o <<".", "m", "p", "3">>

\* filepath.Join(dir, name), kept as the pair of its components
JoinPath(dir, name) == <<dir, name>>

(***************************************************************************)
(* searchBoth: the merge of the two providers' results.                    *)
(***************************************************************************)
\* variant: the comparison key keeps the case of the feed URL
normalizedURL_CaseSensitive(feedURL) == TrimSuffixSlash(feedURL)

normalizedURL(feedURL) == ToLower(TrimSuffixSlash(feedURL))

\* one of the two loops of searchBoth: append the entries of rs whose
\* normalized feed URL has not been seen; acc is [combined, seen]
RECURSIVE AppendUnseen(_, _)
AppendUnseen(acc, rs) ==
  IF rs = <<>> THEN acc
  ELSE LET r == Head(rs)
           n == normalizedURL(r.FeedURL)
       IN IF n \notin acc.seen
            THEN AppendUnseen([combined |-> Append(acc.combined, r),
                               seen |-> acc.seen \cup {n}], Tail(rs))
            ELSE AppendUnseen(acc, Tail(rs))

\* a nil error
NoError == ""

\* fmt.Errorf("search failed: Apple: %v, Podcast Index: %v", appleErr, piErr),
\* kept as the sequence of its parts
BothFailed(appleErr, piErr) ==
  <<"search failed: Apple: ", appleErr, ", Podcast Index: ", piErr>>

\* variant: the Podcast Index loop runs before the Apple loop
searchBothMerge_IndexFirst(appleResults, appleErr, piResults, piErr) ==
  IF appleErr # NoError /\ piErr # NoError
    THEN [ok |-> FALSE, results |-> <<>>, err |-> BothFailed(appleErr, piErr)]
    ELSE LET a0 == [combined |-> <<>>, seen |-> {}]
             a1 == IF piErr = NoError THEN AppendUnseen(a0, piResults) ELSE a0
             a2 == IF appleErr = NoError THEN AppendUnseen(a1, appleResults) ELSE a1
         IN [ok |-> TRUE, results |-> a2.combined, err |-> <<>>]

\* variant: the call fails as soon as one provider fails
searchBothMerge_FailsOnAny(appleResults, appleErr, piResults, piErr) ==
  IF appleErr # NoError \/ piErr # NoError
    THEN [ok |-> FALSE, results |-> <<>>, err |-> BothFailed(appleErr, piErr)]
    ELSE LET a0 == [combined |-> <<>>, seen |-> {}]
             a1 == AppendUnseen(a0, appleResults)
             a2 == AppendUnseen(a1, piResults)
         IN [ok |-> TRUE, results |-> a2.combined, err |-> <<>>]

\* the part of searchBoth after wg.Wait(): an error when both providers
\* failed, else the combined list
searchBothMerge(appleResults, appleErr, piResults, piErr) ==
  IF appleErr # NoError /\ piErr # NoError
    THEN [ok |-> FALSE, results |-> <<>>, err |-> BothFailed(appleErr, piErr)]
    ELSE LET a0 == [combined |-> <<>>, seen |-> {}]
             a1 == IF appleErr = NoError THEN AppendUnseen(a0, appleResults) ELSE a0
             a2 == IF piErr = NoError THEN AppendUnseen(a1, piResults) ELSE a1
         IN [ok |-> TRUE, results |-> a2.combined, err |-> <<>>]

(***************************************************************************)
(* Records of the program.                                                 *)
(***************************************************************************)
\* SearchResult (ArtworkURL is carried along and never read by a handler)
SearchResult(id, name, artist, feedURL, source) ==
  [ID |-> id, Name |-> name, Artist |-> artist, FeedURL |-> feedURL,
   Source |-> source]

NoResult == SearchResult("", <<>>, "", <<>>, "")

\* PodcastInfo (zero value: NoInfo)
PodcastInfo(name, artist, feedURL) ==
  [Name |-> name, Artist |-> artist, FeedURL |-> feedURL]

NoInfo == PodcastInfo(<<>>, "", <<>>)

\* Episode (Description, PubDate, Duration are display data)
Episode(index, title, audioURL) ==
  [Index |-> index, Title |-> title, AudioURL |-> audioURL, Selected |-> FALSE]

NoEpisode == Episode(0, <<>>, "")

\* what the closure returned by downloadNextCmd captures
NoTask == [ep |-> NoEpisode, file |-> <<>>, dir |-> <<>>, info |-> NoInfo]

\* a tea.Cmd: nil, tea.Quit, or one of the program's commands; "panic" stands
\* for a Go run-time panic inside Update (index out of range)
Cmd(kind, res, task) == [kind |-> kind, res |-> res, task |-> task]

CmdNil == Cmd("nil", NoResult, NoTask)
CmdQuit == Cmd("quit", NoResult, NoTask)
CmdPanic == Cmd("panic", NoResult, NoTask)

\* m.percent is a float64; the model keeps the fraction it was computed from
Fraction(num, den) == [num |-> num, den |-> den]

Zero == Fraction(0, 1)

(***************************************************************************)
(* initialModel and model.Init.                                            *)
(***************************************************************************)
IsDigitChar(c) == c \in {"0", "1", "2", "3", "4", "5", "6", "7", "8", "9"}

isNumeric(s) == (\A i \in 1..Len(s) : IsDigitChar(s[i])) /\ Len(s) > 0

initialModel(input, baseDir, provider) ==
  [state |-> stateLoading,
   podcastID |-> IF isNumeric(input) THEN input ELSE <<>>,
   searchQuery |-> IF isNumeric(input) THEN <<>> ELSE input,
   searchResults |-> <<>>,
   podcastInfo |-> NoInfo,
   episodes |-> <<>>,
   cursor |-> 0,
   offset |-> 0,
   windowHeight |-> DefaultWindowHeight,
   errorMsg |-> "",
   downloadIndex |-> 0,
   downloadTotal |-> 0,
   outputDir |-> <<>>,
   baseDir |-> baseDir,
   downloaded |-> <<>>,
   percent |-> Zero,
   searchProvider |-> provider]

\* variant: Init starts an Apple search whatever the input was
InitCmd_AlwaysSearches(mm, creds) == Cmd("searchPodcasts", NoResult, NoTask)

\* the command model.Init returns (the spinner tick is rendering)
InitCmd(mm, creds) ==
  IF mm.searchQuery # <<>>
    THEN IF creds /\ mm.searchProvider = ProviderApple
           THEN Cmd("searchBoth", NoResult, NoTask)
           ELSE IF mm.searchProvider = ProviderPodcastIndex
                  THEN Cmd("searchPodcastIndex", NoResult, NoTask)
                  ELSE Cmd("searchPodcasts", NoResult, NoTask)
    ELSE Cmd("loadPodcast",
             SearchResult(mm.podcastID, <<>>, "", <<>>, ""), NoTask)

(***************************************************************************)
(* model.Update and its helpers.                                           *)
(***************************************************************************)
Keys ==
  { "ctrl+c", "q", "esc", "b", "v", "up", "k", "down", "j", "pgup", "pgdown",
    " ", "x", "a", "enter", "tab" }

Ret(mm, cmd) == [m |-> mm, cmd |-> cmd]

\* variant: every episode counts as selected
getSelectedEpisodes_All(mm) == mm.episodes

getSelectedEpisodes(mm) == SelectSeq(mm.episodes, LAMBDA ep : ep.Selected)

\* variant: the file is numbered by the position among the selected episodes
downloadNextCmd_SelectedPosition(mm) ==
  LET selected == getSelectedEpisodes(mm)
  IN IF mm.downloadIndex >= Len(selected)
       THEN CmdNil
       ELSE LET ep == selected[mm.downloadIndex + 1]
                numbered == [ep EXCEPT !.Index = mm.downloadIndex + 1]
            IN Cmd("download", NoResult,
                   [ep |-> ep, file |-> currentFile(numbered),
                    dir |-> mm.outputDir, info |-> mm.podcastInfo])

downloadNextCmd(mm) ==
  LET selected == getSelectedEpisodes(mm)
  IN IF mm.downloadIndex >= Len(selected)
       THEN CmdNil
       ELSE LET ep == selected[mm.downloadIndex + 1]
            IN Cmd("download", NoResult,
                   [ep |-> ep, file |-> currentFile(ep), dir |-> mm.outputDir,
                    info |-> mm.podcastInfo])

visibleItems(mm, margin) ==
  IF mm.windowHeight - margin < 5 THEN 5 ELSE mm.windowHeight - margin

handleSearchResultsKeys(mm, key) ==
  LET visible == visibleItems(mm, 10)
  IN CASE key \in {"ctrl+c", "q"} -> Ret(mm, CmdQuit)
       [] key \in {"up", "k"} ->
            IF mm.cursor > 0
              THEN Ret([mm EXCEPT !.cursor = mm.cursor - 1,
                                  !.offset = IF mm.cursor - 1 < mm.offset
                                               THEN mm.cursor - 1
                                               ELSE mm.offset], CmdNil)
              ELSE Ret(mm, CmdNil)
       [] key \in {"down", "j"} ->
            IF mm.cursor < Len(mm.searchResults) - 1
              THEN Ret([mm EXCEPT !.cursor = mm.cursor + 1,
                                  !.offset = IF mm.cursor + 1 >= mm.offset + visible
                                               THEN mm.cursor + 1 - visible + 1
                                               ELSE mm.offset], CmdNil)
              ELSE Ret(mm, CmdNil)
       [] key = "enter" ->
            IF mm.cursor < Len(mm.searchResults)
              THEN IF mm.cursor < 0
                     THEN Ret(mm, CmdPanic)
                     ELSE Ret(mm, Cmd("selectSearchResultMsg",
                                      mm.searchResults[mm.cursor + 1], NoTask))
              ELSE Ret(mm, CmdNil)
       [] key = "v" ->
            IF mm.cursor < Len(mm.searchResults)
              THEN Ret([mm EXCEPT !.state = statePreviewPodcast], CmdNil)
              ELSE Ret(mm, CmdNil)
       [] OTHER -> Ret(mm, CmdNil)

\* variant: the toggle selects the episode and never deselects it
toggleSelected_OnlySelects(mm) ==
  [mm EXCEPT !.episodes[mm.cursor + 1].Selected = TRUE]

\* m.episodes[m.cursor].Selected = !m.episodes[m.cursor].Selected
toggleSelected(mm) ==
  [mm EXCEPT !.episodes[mm.cursor + 1].Selected =
               ~mm.episodes[mm.cursor + 1].Selected]

\* variant: select-all inverts every flag
selectAll_Inverts(mm) ==
  [mm EXCEPT !.episodes =
     [i \in 1..Len(mm.episodes) |->
        [mm.episodes[i] EXCEPT !.Selected = ~mm.episodes[i].Selected]]]

\* allSelected := no episode is unselected; every flag is set to !allSelected
selectAll(mm) ==
  LET allSelected == \A i \in 1..Len(mm.episodes) : mm.episodes[i].Selected
  IN [mm EXCEPT !.episodes =
        [i \in 1..Len(mm.episodes) |->
           [mm.episodes[i] EXCEPT !.Selected = ~allSelected]]]

handleSelectionKeys(mm, key) ==
  LET visible == visibleItems(mm, 12)
      n == Len(mm.episodes)
  IN CASE key \in {"ctrl+c", "q"} -> Ret(mm, CmdQuit)
       [] key \in {"esc", "b"} ->
            IF Len(mm.searchResults) > 0
              THEN Ret([mm EXCEPT !.state = stateSearchResults,
                                  !.cursor = 0, !.offset = 0], CmdNil)
              ELSE Ret(mm, CmdQuit)
       [] key \in {"up", "k"} ->
            IF mm.cursor > 0
              THEN Ret([mm EXCEPT !.cursor = mm.cursor - 1,
                                  !.offset = IF mm.cursor - 1 < mm.offset
                                               THEN mm.cursor - 1
                                               ELSE mm.offset], CmdNil)
              ELSE Ret(mm, CmdNil)
       [] key \in {"down", "j"} ->
            IF mm.cursor < n - 1
              THEN Ret([mm EXCEPT !.cursor = mm.cursor + 1,
                                  !.offset = IF mm.cursor + 1 >= mm.offset + visible
                                               THEN mm.cursor + 1 - visible + 1
                                               ELSE mm.offset], CmdNil)
              ELSE Ret(mm, CmdNil)
       [] key = "pgup" ->
            LET c == IF mm.cursor - visible < 0 THEN 0 ELSE mm.cursor - visible
            IN Ret([mm EXCEPT !.cursor = c, !.offset = c], CmdNil)
       [] key = "pgdown" ->
            LET c == IF mm.cursor + visible >= n THEN n - 1 ELSE mm.cursor + visible
            IN Ret([mm EXCEPT !.cursor = c,
                              !.offset = IF c >= mm.offset + visible
                                           THEN c - visible + 1
                                           ELSE mm.offset], CmdNil)
       [] key \in {" ", "x"} ->
            IF mm.cursor < 0 \/ mm.cursor >= n
              THEN Ret(mm, CmdPanic)
              ELSE Ret(toggleSelected(mm), CmdNil)
       [] key = "a" ->
            Ret(selectAll(mm), CmdNil)
       [] key = "enter" ->
            LET selected == getSelectedEpisodes(mm)
            IN IF Len(selected) > 0
                 THEN Ret([mm EXCEPT !.state = stateDownloading,
                                     !.downloadTotal = Len(selected),
                                     !.downloadIndex = 0,
                                     !.outputDir =
                                        JoinPath(mm.baseDir,
                                                 sanitizeFilename(mm.podcastInfo.Name))],
                          Cmd("startDownloadMsg", NoResult, NoTask))
                 ELSE Ret(mm, CmdNil)
       [] key = "v" ->
            IF mm.cursor < n
              THEN Ret([mm EXCEPT !.state = statePreviewEpisode], CmdNil)
              ELSE Ret(mm, CmdNil)
       [] OTHER -> Ret(mm, CmdNil)

\* variant: cancel forgets to reset downloadTotal
handleDownloadingKeys_KeepsTotal(mm, key) ==
  IF key \in {"esc", "b"}
    THEN Ret([mm EXCEPT !.state = stateSelecting, !.downloadIndex = 0,
                        !.percent = Zero, !.downloaded = <<>>], CmdNil)
    ELSE IF key \in {"ctrl+c", "q"} THEN Ret(mm, CmdQuit) ELSE Ret(mm, CmdNil)

\* variant: every key but quit cancels the batch
handleDownloadingKeys_AnyKeyCancels(mm, key) ==
  IF key \in {"ctrl+c", "q"}
    THEN Ret(mm, CmdQuit)
    ELSE Ret([mm EXCEPT !.state = stateSelecting, !.downloadIndex = 0,
                        !.downloadTotal = 0, !.percent = Zero,
                        !.downloaded = <<>>], CmdNil)

\* case stateDownloading of Update's tea.KeyMsg branch
handleDownloadingKeys(mm, key) ==
  IF key \in {"esc", "b"}
    THEN Ret([mm EXCEPT !.state = stateSelecting, !.downloadIndex = 0,
                        !.downloadTotal = 0, !.percent = Zero,
                        !.downloaded = <<>>], CmdNil)
    ELSE IF key \in {"ctrl+c", "q"} THEN Ret(mm, CmdQuit) ELSE Ret(mm, CmdNil)

\* variant: closing a preview puts the list back at its top
closePreview_ToTop(mm, list) ==
  [mm EXCEPT !.state = list, !.cursor = 0, !.offset = 0]

\* esc, b or v in a preview: m.state = stateSearchResults, or stateSelecting
closePreview(mm, list) == [mm EXCEPT !.state = list]

\* case tea.KeyMsg of Update
UpdateKey(mm, key) ==
  CASE mm.state = stateSearchResults -> handleSearchResultsKeys(mm, key)
    [] mm.state = statePreviewPodcast ->
         IF key \in {"esc", "b", "v"}
           THEN Ret(closePreview(mm, stateSearchResults), CmdNil)
           ELSE IF key \in {"ctrl+c", "q"} THEN Ret(mm, CmdQuit) ELSE Ret(mm, CmdNil)
    [] mm.state = stateSelecting -> handleSelectionKeys(mm, key)
    [] mm.state = statePreviewEpisode ->
         IF key \in {"esc", "b", "v"}
           THEN Ret(closePreview(mm, stateSelecting), CmdNil)
           ELSE IF key \in {"ctrl+c", "q"} THEN Ret(mm, CmdQuit) ELSE Ret(mm, CmdNil)
    [] mm.state = stateDownloading -> handleDownloadingKeys(mm, key)
    [] mm.state \in {stateDone, stateError} ->
         IF key \in {"q", "ctrl+c", "enter"} THEN Ret(mm, CmdQuit) ELSE Ret(mm, CmdNil)
    [] OTHER ->
         IF key \in {"ctrl+c", "q"} THEN Ret(mm, CmdQuit) ELSE Ret(mm, CmdNil)

\* variant: an empty result list is shown like any other
UpdateSearchResults_ShowsEmpty(mm, results) ==
  Ret([mm EXCEPT !.searchResults = results, !.state = stateSearchResults,
                 !.cursor = 0, !.offset = 0], CmdNil)

\* case searchResultsMsg
UpdateSearchResults(mm, results) ==
  IF Len(results) = 0
    THEN Ret([mm EXCEPT !.searchResults = results, !.state = stateError,
                        !.errorMsg = "No podcasts found"], CmdNil)
    ELSE Ret([mm EXCEPT !.searchResults = results, !.state = stateSearchResults,
                        !.cursor = 0, !.offset = 0], CmdNil)

\* variant: every selected result is looked up by its identifier
UpdateSelectSearchResult_AlwaysLooksUp(mm, result) ==
  Ret([mm EXCEPT !.state = stateLoading, !.podcastID = result.ID],
      Cmd("loadPodcast", result, NoTask))

\* case selectSearchResultMsg
UpdateSelectSearchResult(mm, result) ==
  IF result.Source = ProviderPodcastIndex
    THEN Ret([mm EXCEPT !.state = stateLoading],
             Cmd("loadPodcastFromFeed", result, NoTask))
    ELSE Ret([mm EXCEPT !.state = stateLoading, !.podcastID = result.ID],
             Cmd("loadPodcast", result, NoTask))

\* variant: the loaded list is shown with the cursor where it was
UpdatePodcastLoaded_KeepsCursor(mm, info, episodes) ==
  Ret([mm EXCEPT !.state = stateSelecting, !.podcastInfo = info,
                 !.episodes = episodes], CmdNil)

\* case podcastLoadedMsg
UpdatePodcastLoaded(mm, info, episodes) ==
  Ret([mm EXCEPT !.state = stateSelecting, !.podcastInfo = info,
                 !.episodes = episodes, !.cursor = 0, !.offset = 0], CmdNil)

\* case errorMsg
UpdateError(mm, err) ==
  Ret([mm EXCEPT !.state = stateError, !.errorMsg = err], CmdNil)

\* case downloadProgressMsg
UpdateDownloadProgress(mm, percent) == Ret([mm EXCEPT !.percent = percent], CmdNil)

\* case startDownloadMsg
UpdateStartDownload(mm) == Ret(mm, downloadNextCmd(mm))

\* variant: the program ends by itself when the batch is done
UpdateDownloadComplete_QuitsWhenDone(mm, filename) ==
  LET m1 == [mm EXCEPT !.downloaded = Append(mm.downloaded, filename),
                       !.downloadIndex = mm.downloadIndex + 1,
                       !.percent = Zero]
  IN IF m1.downloadIndex < m1.downloadTotal
       THEN Ret(m1, downloadNextCmd(m1))
       ELSE Ret([m1 EXCEPT !.state = stateDone], CmdQuit)

\* case downloadCompleteMsg
UpdateDownloadComplete(mm, filename) ==
  LET m1 == [mm EXCEPT !.downloaded = Append(mm.downloaded, filename),
                       !.downloadIndex = mm.downloadIndex + 1,
                       !.percent = Zero]
  IN IF m1.downloadIndex < m1.downloadTotal
       THEN Ret(m1, downloadNextCmd(m1))
       ELSE Ret([m1 EXCEPT !.state = stateDone], CmdNil)

(***************************************************************************)
(* The world around the session: catalog responses, feeds, files.          *)
(***************************************************************************)
\* what a feed item's enclosure looks like to the audio test of loadPodcast:
\* strings.Contains(enc.Type, "audio") || strings.HasSuffix(enc.URL, ".mp3")
Enclosure(typeHasAudio, urlEndsMp3, url) ==
  [typeHasAudio |-> typeHasAudio, urlEndsMp3 |-> urlEndsMp3, URL |-> url]

\* variant: only the declared type is looked at
IsAudio_TypeOnly(enc) == enc.typeHasAudio

IsAudio(enc) == enc.typeHasAudio \/ enc.urlEndsMp3

AudioItem == [Title |-> <<"a">>, Enclosures |-> <<Enclosure(TRUE, FALSE, "u")>>]
ImageItem == [Title |-> <<"a">>, Enclosures |-> <<Enclosure(FALSE, FALSE, "img")>>]

RECURSIVE SeqsUpTo(_, _)
SeqsUpTo(S, n) ==
  IF n = 0 THEN {<<>>}
  ELSE LET shorter == SeqsUpTo(S, n - 1)
       IN shorter \cup {Append(q, x) : q \in shorter, x \in S}

\* the feed documents a feed URL may serve
Feeds == SeqsUpTo({AudioItem, ImageItem}, MaxFeedItems)

\* items of other shapes: an .mp3 URL under another type, an audio type
\* without a URL, no enclosure at all, an image before the audio, and an
\* audio type without a URL before the audio
Mp3Item == [Title |-> <<"a">>, Enclosures |-> <<Enclosure(FALSE, TRUE, "v.mp3")>>]
BlankItem == [Title |-> <<"a">>, Enclosures |-> <<Enclosure(TRUE, FALSE, "")>>]
BareItem == [Title |-> <<"a">>, Enclosures |-> <<>>]
LateAudioItem ==
  [Title |-> <<"a">>,
   Enclosures |-> <<Enclosure(FALSE, FALSE, "img"), Enclosure(TRUE, FALSE, "u")>>]
BlankFirstItem ==
  [Title |-> <<"a">>,
   Enclosures |-> <<Enclosure(TRUE, FALSE, ""), Enclosure(TRUE, FALSE, "u")>>]

\* the identifier of a podcast whose feed has items of every shape
RichID == <<"9">>

RichFeeds ==
  SeqsUpTo({AudioItem, ImageItem, Mp3Item, BlankItem, BareItem, LateAudioItem,
            BlankFirstItem}, MaxFeedItems)

\* the feed documents the feed of a catalog entry may serve
FeedsOf(result) == IF result.ID = RichID THEN RichFeeds ELSE Feeds

\* the first audio enclosure's URL, "" when there is none
RECURSIVE FirstAudioURL(_)
FirstAudioURL(encs) ==
  IF encs = <<>> THEN ""
  ELSE IF IsAudio(Head(encs)) THEN Head(encs).URL ELSE FirstAudioURL(Tail(encs))

\* the episode loop of loadPodcast / loadPodcastFromFeed over items i..Len
RECURSIVE EpisodesFrom(_, _)
EpisodesFrom(items, i) ==
  IF i > Len(items) THEN <<>>
  ELSE LET audioURL == FirstAudioURL(items[i].Enclosures)
       IN IF audioURL = ""
            THEN EpisodesFrom(items, i + 1)
            ELSE <<Episode(i, items[i].Title, audioURL)>> \o EpisodesFrom(items, i + 1)

ParseEpisodes(items) == EpisodesFrom(items, 1)

\* the catalog entry the Apple lookup returns for any known identifier
CatalogInfo == PodcastInfo(<<"N">>, "artist", <<"f">>)

\* search responses in the session specification
AppleA == SearchResult(<<"1">>, <<"N">>, "artist", <<"f">>, ProviderApple)
IndexA == SearchResult(<<"7">>, <<"N">>, "artist", <<"F", "/">>, ProviderPodcastIndex)
IndexB == SearchResult(<<"8">>, <<"N">>, "host", <<"g">>, ProviderPodcastIndex)

SessionAppleResponses == {<<>>, <<AppleA>>}
SessionIndexResponses == {<<>>, <<IndexA, IndexB>>}

\* the command lines the session is started with: the positional argument,
\* the --index provider, and whether both Podcast Index credentials are set
\* (for an identifier, provider and credentials are never read)
Config(input, provider, c) == [input |-> input, provider |-> provider, creds |-> c]

Configs ==
  {Config(<<"1", "2">>, ProviderApple, FALSE)}
    \cup {Config(<<"t", "d">>, p, c) :
            p \in {ProviderApple, ProviderPodcastIndex}, c \in BOOLEAN}

BaseDir == <<".">>

\* files a previous run may have left in the output directory
OldFiles ==
  {JoinPath(JoinPath(BaseDir, sanitizeFilename(CatalogInfo.Name)),
            currentFile(Episode(1, <<"a">>, "u")))}

\* the requests the commands send: the two catalog searches, the Apple
\* lookup, and the fetch of a feed document
ReqAppleSearch == "itunes.apple.com/search"
ReqIndexSearch == "api.podcastindex.org/search/byterm"
ReqLookup == "itunes.apple.com/lookup"
ReqFeed == "feed"

\* errors of the two search requests (transport, status, JSON)
AppleErrors == {"apple: request failed", "apple: invalid JSON"}
IndexErrors == {"index: request failed", "index: API error"}

ErrSearch == "search failed"
ErrCredentials == "Podcast Index API credentials not set"
ErrLoad == "failed to load podcast"
ErrNoEpisodes == "no downloadable episodes found"
ErrDownload == "download failed"

(***************************************************************************)
(* State.                                                                  *)
(***************************************************************************)
VARIABLES
  m,        \* the Bubble Tea model
  cmds,     \* bag of commands running in goroutines (all but downloads)
  workers,  \* bag of running download closures (downloadNextCmd)
  disk,     \* paths of the files that exist
  creds,    \* both Podcast Index environment values are set
  quit,     \* tea.Quit was returned: the program has ended
  crashed,  \* Update panicked
  starts,   \* commands started by key presses so far
  net,      \* bag of the catalog and feed requests issued so far
  tags,     \* the calls of addID3Tags made so far, with their outcome
  feed,     \* the items of the feed document parsed last
  cause,    \* the key, or "message", on which Update returned tea.Quit
  gui,      \* the windowed program (specification SpecGui)
  sb        \* one call of searchBoth (specification SpecSearch)

vars ==
  <<m, cmds, workers, disk, creds, quit, crashed, starts, net, tags, feed,
    cause, gui, sb>>

Running == ~quit /\ ~crashed

InFlight == BagCardinality(cmds) + BagCardinality(workers)

One(x) == SetToBag({x})

\* a download closure at its first statement
Worker(task) ==
  [task |-> task, pc |-> "stat", existed |-> FALSE, fetched |-> FALSE,
   totalSize |-> 0, bodyLen |-> 0, downloaded |-> 0, last |-> 0,
   emitted |-> <<>>, tagErr |-> FALSE]

FilePath(w) == JoinPath(w.task.dir, w.task.file)

\* a closure handed to fyne.Do: it runs later on the UI thread
UIClosure(kind, results, info, episodes) ==
  [kind |-> kind, results |-> results, info |-> info, episodes |-> episodes]

\* the goroutine of startDownload: the episodes it captured, the folder, the
\* position of its loop and its next statement; info records a.podcastInfo
\* as it was when startDownload ran (the goroutine keeps no copy of it)
Batch(selected, dir, info, i, pc) ==
  [selected |-> selected, dir |-> dir, info |-> info, i |-> i, pc |-> pc]

NoBatch == Batch(<<>>, <<>>, NoInfo, 0, "none")

\* an access of a field of App: the field, the thread, and whether it writes
Access(field, thread, write) ==
  [field |-> field, thread |-> thread, write |-> write]

\* the App of the windowed program: its data fields, the view shown, the
\* Select All checkbox, the closures queued for the UI thread, the search
\* and load goroutines running, the download goroutine, the number of
\* goroutines started, and the accesses of the data fields made so far
App(view) ==
  [view |-> view, searchResults |-> <<>>, episodes |-> <<>>,
   podcastInfo |-> NoInfo, outputDir |-> <<".">>, downloading |-> FALSE,
   checkAll |-> FALSE, queue |-> <<>>, routines |-> EmptyBag,
   batch |-> NoBatch, spawned |-> 0, accesses |-> {}]

\* the windowed program is not running
NoGui == App("off")

NoSearch ==
  [pc |-> "idle", appleResults |-> <<>>, appleErr |-> NoError,
   appleDone |-> FALSE,
   piResults |-> <<>>, piErr |-> NoError, piDone |-> FALSE, out |-> <<>>]

\* the runtime takes the model and the command Update returned; cs and ws are
\* the commands and workers still running
ApplyBy(event, r, cs, ws) ==
  /\ m' = r.m
  /\ quit' = (quit \/ r.cmd.kind = "quit")
  /\ cause' = IF ~quit /\ r.cmd.kind = "quit" THEN event ELSE cause
  /\ crashed' = (crashed \/ r.cmd.kind = "panic")
  /\ cmds' = IF r.cmd.kind \in {"nil", "quit", "panic", "download"}
               THEN cs ELSE cs (+) One(r.cmd)
  /\ workers' = IF r.cmd.kind = "download"
                  THEN ws (+) One(Worker(r.cmd.task)) ELSE ws

\* Update handles a message of a command or of a download closure
Apply(r, cs, ws) == ApplyBy("message", r, cs, ws)

Init ==
  \E cfg \in Configs, files \in SUBSET OldFiles :
    /\ m = initialModel(cfg.input, BaseDir, cfg.provider)
    /\ cmds = One(InitCmd(m, cfg.creds))
    /\ workers = EmptyBag
    /\ disk = files
    /\ creds = cfg.creds
    /\ quit = FALSE
    /\ crashed = FALSE
    /\ cause = ""
    /\ starts = 0
    /\ net = EmptyBag
    /\ tags = {}
    /\ feed = <<>>
    /\ gui = NoGui
    /\ sb = NoSearch

(***************************************************************************)
(* Events of the session.                                                  *)
(***************************************************************************)
\* a key reaches Update
KeyPress(key) ==
  /\ Running
  /\ LET r == UpdateKey(m, key)
     IN /\ IF r.cmd.kind \in {"nil", "quit", "panic"}
             THEN UNCHANGED starts
             ELSE /\ InFlight < MaxInFlight
                  /\ starts < MaxStarts
                  /\ starts' = starts + 1
        /\ ApplyBy(key, r, cmds, workers)
  /\ UNCHANGED <<disk, creds, feed, tags, gui, net, sb>>

Key == \E key \in Keys : KeyPress(key)

\* searchPodcasts finishes
SearchApple ==
  /\ Running
  /\ \E c \in BagToSet(cmds) :
       /\ c.kind = "searchPodcasts"
       /\ \/ Apply(UpdateError(m, ErrSearch), cmds (-) One(c), workers)
          \/ \E rs \in SessionAppleResponses :
               Apply(UpdateSearchResults(m, rs), cmds (-) One(c), workers)
  /\ net' = net (+) One(ReqAppleSearch)
  /\ UNCHANGED <<disk, creds, feed, tags, gui, starts, sb>>

\* searchPodcastIndex finishes
SearchIndex ==
  /\ Running
  /\ \E c \in BagToSet(cmds) :
       /\ c.kind = "searchPodcastIndex"
       /\ IF ~creds
            THEN Apply(UpdateError(m, ErrCredentials), cmds (-) One(c), workers)
            ELSE \/ Apply(UpdateError(m, ErrSearch), cmds (-) One(c), workers)
                 \/ \E rs \in SessionIndexResponses :
                      Apply(UpdateSearchResults(m, rs), cmds (-) One(c), workers)
  /\ net' = IF creds THEN net (+) One(ReqIndexSearch) ELSE net
  /\ UNCHANGED <<disk, creds, feed, tags, gui, starts, sb>>

\* searchBoth finishes
SearchBoth ==
  /\ Running
  /\ \E c \in BagToSet(cmds) :
       /\ c.kind = "searchBoth"
       /\ \E ae \in {NoError} \cup AppleErrors, pe \in {NoError} \cup IndexErrors,
             ar \in SessionAppleResponses, pr \in SessionIndexResponses :
            /\ ae # NoError => ar = <<>>
            /\ pe # NoError => pr = <<>>
            /\ LET res == searchBothMerge(ar, ae, pr, pe)
               IN IF res.ok
                    THEN Apply(UpdateSearchResults(m, res.results),
                               cmds (-) One(c), workers)
                    ELSE Apply(UpdateError(m, res.err), cmds (-) One(c), workers)
  /\ net' = net (+) One(ReqAppleSearch) (+) One(ReqIndexSearch)
  /\ UNCHANGED <<disk, creds, feed, tags, gui, starts, sb>>

\* the closure returned by handleSearchResultsKeys (enter) delivers its message
SelectSearchResult ==
  /\ Running
  /\ \E c \in BagToSet(cmds) :
       /\ c.kind = "selectSearchResultMsg"
       /\ Apply(UpdateSelectSearchResult(m, c.res), cmds (-) One(c), workers)
  /\ UNCHANGED <<disk, creds, feed, tags, gui, starts, net, sb>>

\* loadPodcast finishes: the lookup fails (transport, JSON, no result, no
\* feed URL), or the lookup succeeds and the feed is fetched and parsed
LoadPodcast ==
  /\ Running
  /\ \E c \in BagToSet(cmds) :
       /\ c.kind = "loadPodcast"
       /\ \/ /\ Apply(UpdateError(m, ErrLoad), cmds (-) One(c), workers)
             /\ net' = net (+) One(ReqLookup)
             /\ UNCHANGED feed
          \/ /\ Apply(UpdateError(m, ErrLoad), cmds (-) One(c), workers)
             /\ net' = net (+) One(ReqLookup) (+) One(ReqFeed)
             /\ UNCHANGED feed
          \/ /\ \E doc \in FeedsOf(c.res) :
                  LET episodes == ParseEpisodes(doc)
                  IN /\ feed' = doc
                     /\ IF Len(episodes) = 0
                          THEN Apply(UpdateError(m, ErrNoEpisodes),
                                     cmds (-) One(c), workers)
                          ELSE Apply(UpdatePodcastLoaded(m, CatalogInfo, episodes),
                                     cmds (-) One(c), workers)
             /\ net' = net (+) One(ReqLookup) (+) One(ReqFeed)
  /\ UNCHANGED <<disk, creds, tags, gui, starts, sb>>

\* loadPodcastFromFeed finishes: feed parse only
LoadPodcastFromFeed ==
  /\ Running
  /\ \E c \in BagToSet(cmds) :
       /\ c.kind = "loadPodcastFromFeed"
       /\ \/ /\ Apply(UpdateError(m, ErrLoad), cmds (-) One(c), workers)
             /\ UNCHANGED feed
          \/ \E doc \in FeedsOf(c.res) :
               LET episodes == ParseEpisodes(doc)
                   info == PodcastInfo(c.res.Name, c.res.Artist, c.res.FeedURL)
               IN /\ feed' = doc
                  /\ IF Len(episodes) = 0
                       THEN Apply(UpdateError(m, ErrNoEpisodes), cmds (-) One(c), workers)
                       ELSE Apply(UpdatePodcastLoaded(m, info, episodes),
                                  cmds (-) One(c), workers)
  /\ net' = net (+) One(ReqFeed)
  /\ UNCHANGED <<disk, creds, tags, gui, starts, sb>>

\* the closure returned by handleSelectionKeys (enter) delivers its message
StartDownload ==
  /\ Running
  /\ \E c \in BagToSet(cmds) :
       /\ c.kind = "startDownloadMsg"
       /\ Apply(UpdateStartDownload(m), cmds (-) One(c), workers)
  /\ UNCHANGED <<disk, creds, feed, tags, gui, starts, net, sb>>

(***************************************************************************)
(* The download closure of downloadNextCmd, statement by statement.        *)
(***************************************************************************)
\* the URL of an audio file too long for one Read
LongURL == "long"

\* the body lengths a URL may serve
BodyLengths(url) ==
  IF url = LongURL THEN {0, MaxLongBody - 50, MaxLongBody} ELSE 1..MaxBody

\* the number of bytes one resp.Body.Read may return when rem are left: one,
\* two, or all of them
ReadSizes(rem) == {n \in {1, 2, rem} : n <= rem}

\* whether the copy loop sends a progress message, from
\*   totalSize > 0 && (percent-lastPercent >= 0.01 || percent >= 1.0)
\* with percent = downloaded/totalSize and lastPercent = last/totalSize in
\* float64: an advance of exactly one hundredth may round to either side of
\* the constant 0.01
\* variant: the test for the end of the body is left out
EmitChoices_NoFinalValue(downloaded, last, totalSize) ==
  IF totalSize <= 0 THEN {FALSE}
  ELSE IF (downloaded - last) * 100 > totalSize THEN {TRUE}
       ELSE IF (downloaded - last) * 100 = totalSize THEN {TRUE, FALSE}
            ELSE {FALSE}

\* variant: every read of a sized body is reported
EmitChoices_EveryRead(downloaded, last, totalSize) ==
  IF totalSize <= 0 THEN {FALSE} ELSE {TRUE}

EmitChoices(downloaded, last, totalSize) ==
  IF totalSize <= 0 THEN {FALSE}
  ELSE IF downloaded >= totalSize \/ (downloaded - last) * 100 > totalSize
         THEN {TRUE}
         ELSE IF (downloaded - last) * 100 = totalSize
                THEN {TRUE, FALSE}
                ELSE {FALSE}

\* the progress messages a closure has sent, of which the last two are kept
Sent(emitted, percent) ==
  IF Len(emitted) < 2 THEN Append(emitted, percent) ELSE <<emitted[2], percent>>

\* what downloadFileWithProgress does when os.Stat finds the file: it returns
\* nil at once, sending nothing to the program
ResumeExisting(w) == [w EXCEPT !.pc = "tag", !.existed = TRUE]

\* the closure fails: return errorMsg{err}
WorkerFails(w) ==
  Apply(UpdateError(m, ErrDownload), cmds, workers (-) One(w))

\* os.Stat, and http.Get when the file is missing
DownloadStat ==
  /\ Running
  /\ \E w \in BagToSet(workers) :
       /\ w.pc = "stat"
       /\ IF FilePath(w) \in disk
            THEN /\ workers' = (workers (-) One(w)) (+) One(ResumeExisting(w))
                 /\ UNCHANGED <<m, cmds, quit, crashed, cause>>
            ELSE \/ WorkerFails(w)
                 \/ \E len \in BodyLengths(w.task.ep.AudioURL), sized \in BOOLEAN :
                      /\ workers' = (workers (-) One(w)) (+)
                           One([w EXCEPT !.pc = "create", !.fetched = TRUE,
                                         !.bodyLen = len,
                                         !.totalSize = IF sized THEN len ELSE -1])
                      /\ UNCHANGED <<m, cmds, quit, crashed, cause>>
  /\ UNCHANGED <<disk, creds, feed, tags, gui, starts, net, sb>>

\* os.Create
DownloadCreate ==
  /\ Running
  /\ \E w \in BagToSet(workers) :
       /\ w.pc = "create"
       /\ \/ WorkerFails(w) /\ UNCHANGED disk
          \/ /\ disk' = disk \cup {FilePath(w)}
             /\ workers' = (workers (-) One(w)) (+) One([w EXCEPT !.pc = "read"])
             /\ UNCHANGED <<m, cmds, quit, crashed, cause>>
  /\ UNCHANGED <<creds, feed, tags, gui, starts, net, sb>>

\* one turn of the copy loop: resp.Body.Read fails, or returns io.EOF on an
\* exhausted body, or returns some bytes (with io.EOF when they were the
\* last); a progress message goes through program.Send, which hands it to
\* Update before Send returns
DownloadRead ==
  /\ Running
  /\ \E w \in BagToSet(workers) :
       /\ w.pc = "read"
       /\ \/ WorkerFails(w)
          \/ /\ w.downloaded = w.bodyLen
             /\ workers' = (workers (-) One(w)) (+) One([w EXCEPT !.pc = "tag"])
             /\ UNCHANGED <<m, cmds, quit, crashed, cause>>
          \/ \E n \in ReadSizes(w.bodyLen - w.downloaded) :
               LET d == w.downloaded + n
               IN \E emit \in EmitChoices(d, w.last, w.totalSize) :
                    LET percent == Fraction(d, w.totalSize)
                        w1 == [w EXCEPT !.downloaded = d,
                                        !.last = IF emit THEN d ELSE w.last,
                                        !.emitted = IF emit
                                                      THEN Sent(w.emitted, percent)
                                                      ELSE w.emitted,
                                        !.pc = IF d = w.bodyLen
                                                 THEN "tag" ELSE "read"]
                    IN /\ workers' = (workers (-) One(w)) (+) One(w1)
                       /\ m' = IF emit
                                 THEN UpdateDownloadProgress(m, percent).m
                                 ELSE m
                       /\ UNCHANGED <<cmds, quit, crashed, cause>>
  /\ UNCHANGED <<disk, creds, feed, tags, gui, starts, net, sb>>

\* the frames addID3Tags sets on the file at path, and whether tag.Save
\* succeeded
TagCall(path, ep, info, saved) ==
  [path |-> path, title |-> ep.Title, artist |-> info.Artist,
   album |-> info.Name, track |-> Itoa(ep.Index), saved |-> saved]

\* addID3Tags(filePath, ep, podcastInfo)
DownloadTag ==
  /\ Running
  /\ \E w \in BagToSet(workers), saved \in BOOLEAN :
       /\ w.pc = "tag"
       /\ tags' = tags \cup {TagCall(FilePath(w), w.task.ep, w.task.info, saved)}
       /\ workers' = (workers (-) One(w)) (+)
            One([w EXCEPT !.pc = "report", !.tagErr = ~saved])
  /\ UNCHANGED <<m, cmds, quit, crashed, cause, disk, creds, feed, gui, starts, net, sb>>

\* variant: a failed tag.Save fails the task
closureResult_TagErrorFails(mm, w) ==
  IF w.tagErr
    THEN UpdateError(mm, ErrDownload)
    ELSE UpdateDownloadComplete(mm, FilePath(w))

\* the message the closure returns after addID3Tags, whose error it drops,
\* as Update handles it: downloadCompleteMsg{filename: filePath}
closureResult(mm, w) == UpdateDownloadComplete(mm, FilePath(w))

\* return downloadCompleteMsg{filename: filePath}
DownloadComplete ==
  /\ Running
  /\ \E w \in BagToSet(workers) :
       /\ w.pc = "report"
       /\ Apply(closureResult(m, w), cmds, workers (-) One(w))
  /\ UNCHANGED <<disk, creds, feed, tags, gui, starts, net, sb>>

Next ==
  \/ Key
  \/ SearchApple
  \/ SearchIndex
  \/ SearchBoth
  \/ SelectSearchResult
  \/ LoadPodcast
  \/ LoadPodcastFromFeed
  \/ StartDownload
  \/ DownloadStat
  \/ DownloadCreate
  \/ DownloadRead
  \/ DownloadTag
  \/ DownloadComplete

Spec == Init /\ [][Next]_vars

(***************************************************************************)
(* One call of searchBoth, goroutine by goroutine (specification           *)
(* SpecSearch): the two queries finish in any order with any response,     *)
(* and the merge runs after wg.Wait().                                     *)
(***************************************************************************)
\* feed URLs the catalogs may return (entries without a feed URL are dropped
\* by searchAppleResults / searchPodcastIndexResults)
FeedURLSamples == {<<"f">>, <<"F">>, <<"f", "/">>, <<"g">>, <<"/">>}

\* a provider's result list for the feed URLs us: entry i carries the
\* provider's identifier i
ResultsOf(us, source) ==
  [i \in 1..Len(us) |-> SearchResult(Itoa(i), <<"N">>, "artist", us[i], source)]

Responses(source) ==
  {ResultsOf(us, source) : us \in SeqsUpTo(FeedURLSamples, MaxResults)}

InitSearch ==
  /\ m = initialModel(<<"t", "d">>, BaseDir, ProviderApple)
  /\ cmds = One(InitCmd(m, TRUE))
  /\ workers = EmptyBag
  /\ disk = {}
  /\ creds = TRUE
  /\ quit = FALSE
  /\ crashed = FALSE
  /\ cause = ""
  /\ starts = 0
  /\ net = EmptyBag
  /\ tags = {}
  /\ feed = <<>>
  /\ gui = NoGui
  /\ sb = [NoSearch EXCEPT !.pc = "wait"]

\* goroutine 1: appleResults, appleErr = searchAppleResults(query)
AppleQuery ==
  /\ sb.pc = "wait" /\ ~sb.appleDone
  /\ \/ \E e \in AppleErrors :
          sb' = [sb EXCEPT !.appleDone = TRUE, !.appleErr = e]
     \/ \E rs \in Responses(ProviderApple) :
          sb' = [sb EXCEPT !.appleDone = TRUE, !.appleResults = rs]
  /\ net' = net (+) One(ReqAppleSearch)
  /\ UNCHANGED <<m, cmds, workers, disk, creds, feed, tags, gui, quit, crashed, cause, starts>>

\* goroutine 2: piResults, piErr = searchPodcastIndexResults(query)
IndexQuery ==
  /\ sb.pc = "wait" /\ ~sb.piDone
  /\ \/ \E e \in IndexErrors :
          sb' = [sb EXCEPT !.piDone = TRUE, !.piErr = e]
     \/ \E rs \in Responses(ProviderPodcastIndex) :
          sb' = [sb EXCEPT !.piDone = TRUE, !.piResults = rs]
  /\ net' = net (+) One(ReqIndexSearch)
  /\ UNCHANGED <<m, cmds, workers, disk, creds, feed, tags, gui, quit, crashed, cause, starts>>

\* what the closure does from wg.Wait() on: the merge reads the goroutines'
\* variables as they are, the closure returns its one message, and the
\* runtime hands that message to Update
MergeAndDeliver ==
  LET res == searchBothMerge(sb.appleResults, sb.appleErr, sb.piResults, sb.piErr)
  IN /\ sb' = [sb EXCEPT !.pc = "done", !.out = Append(sb.out, res)]
     /\ \E c \in BagToSet(cmds) :
          /\ c.kind = "searchBoth"
          /\ IF res.ok
               THEN Apply(UpdateSearchResults(m, res.results),
                          cmds (-) One(c), workers)
               ELSE Apply(UpdateError(m, res.err), cmds (-) One(c), workers)
     /\ UNCHANGED <<disk, creds, feed, tags, gui, starts, net>>

\* variant: the closure does not wait for the two goroutines
MergeBoth_NoWait ==
  /\ sb.pc = "wait"
  /\ MergeAndDeliver

\* wg.Wait() returns once both goroutines have called wg.Done()
MergeBoth ==
  /\ sb.pc = "wait" /\ sb.appleDone /\ sb.piDone
  /\ MergeAndDeliver

NextSearch == AppleQuery \/ IndexQuery \/ MergeBoth

SpecSearch == InitSearch /\ [][NextSearch]_vars

(***************************************************************************)
(* The start of the program for any positional argument (specification     *)
(* SpecArgs): main builds the model with initialModel, and program.Run     *)
(* calls model.Init.                                                       *)
(***************************************************************************)
\* characters of the positional argument: digits, the letters of the "id"
\* prefix, and another letter
ArgChars == {"1", "2", "i", "d", "t"}

\* the positional arguments: the non-empty strings of up to MaxArgLen
\* characters
Args == SeqsUpTo(ArgChars, MaxArgLen) \ {<<>>}

\* main has parsed the command line and built the model
InitArgs ==
  \E input \in Args, provider \in {ProviderApple, ProviderPodcastIndex},
     c \in BOOLEAN :
    /\ m = initialModel(input, BaseDir, provider)
    /\ cmds = EmptyBag
    /\ workers = EmptyBag
    /\ disk = {}
    /\ creds = c
    /\ quit = FALSE
    /\ crashed = FALSE
    /\ cause = ""
    /\ starts = 0
    /\ net = EmptyBag
    /\ tags = {}
    /\ feed = <<>>
    /\ gui = NoGui
    /\ sb = NoSearch

\* program.Run calls model.Init and starts the command it returns
RunInit ==
  /\ cmds = EmptyBag
  /\ cmds' = One(InitCmd(m, creds))
  /\ UNCHANGED <<m, workers, disk, creds, feed, tags, gui, quit, crashed, cause, starts, net, sb>>

NextArgs == RunInit

SpecArgs == InitArgs /\ [][NextArgs]_vars

(***************************************************************************)
(* The naming of folders and files (specification SpecNames): a podcast     *)
(* has been loaded whose feed carries audio in its last two items only;     *)
(* the user selects episodes and downloads them.                            *)
(***************************************************************************)
\* the longest feed
MaxFeedLen == 1000

\* the lengths of the feeds: the last two items carry the episodes
FeedLengths == {2, 10, 100, MaxFeedLen}

NameChars == {"a", " ", "/"}

\* n times the character c
Run(c, n) == [i \in 1..n |-> c]

\* podcast names and episode titles: every short string, the strings around
\* the length limit of sanitizeFilename, and the fallback literal itself
Names ==
  SeqsUpTo(NameChars, 3)
    \cup {pre \o Run(c, k) \o suf :
            pre \in SeqsUpTo(NameChars, 1), suf \in SeqsUpTo(NameChars, 1),
            c \in NameChars,
            k \in {MaxNameLen - 1, MaxNameLen, MaxNameLen + 1}}
    \cup {EpisodeLiteral}

TitledItem(title) ==
  [Title |-> title, Enclosures |-> <<Enclosure(TRUE, FALSE, "u")>>]

\* a feed of n items: items n-1 and n carry audio
SparseFeed(n, t1, t2) ==
  [i \in 1..n |-> IF i = n - 1 THEN TitledItem(t1)
                  ELSE IF i = n THEN TitledItem(t2) ELSE ImageItem]

\* the episodes the loop of loadPodcast appends for SparseFeed(n, t1, t2)
SparseEpisodes(n, t1, t2) == <<Episode(n - 1, t1, "u"), Episode(n, t2, "u")>>

\* the session right after podcastLoadedMsg
InitNames ==
  \E name \in Names, n \in FeedLengths :
    /\ feed = SparseFeed(n, name, <<"b">>)
    /\ m = UpdatePodcastLoaded(initialModel(<<"1">>, BaseDir, ProviderApple),
                               PodcastInfo(name, "artist", <<"f">>),
                               SparseEpisodes(n, name, <<"b">>)).m
    /\ cmds = EmptyBag
    /\ workers = EmptyBag
    /\ disk = {}
    /\ creds = FALSE
    /\ quit = FALSE
    /\ crashed = FALSE
    /\ cause = ""
    /\ starts = 0
    /\ net = One(ReqLookup) (+) One(ReqFeed)
    /\ tags = {}
    /\ gui = NoGui
    /\ sb = NoSearch

NextNames ==
  \/ KeyPress("a")
  \/ KeyPress(" ")
  \/ KeyPress("down")
  \/ KeyPress("enter")
  \/ StartDownload
  \/ DownloadStat
  \/ DownloadCreate
  \/ DownloadRead
  \/ DownloadTag
  \/ DownloadComplete

SpecNames == InitNames /\ [][NextNames]_vars

(***************************************************************************)
(* One long download (specification SpecDownload): the feed of the loaded   *)
(* podcast has one episode, whose audio file takes many reads.              *)
(***************************************************************************)
LongItem == [Title |-> <<"a">>, Enclosures |-> <<Enclosure(TRUE, FALSE, LongURL)>>]

\* the session right after podcastLoadedMsg
InitDownload ==
  /\ feed = <<LongItem>>
  /\ m = UpdatePodcastLoaded(initialModel(<<"1">>, BaseDir, ProviderApple),
                             CatalogInfo, ParseEpisodes(feed)).m
  /\ cmds = EmptyBag
  /\ workers = EmptyBag
  /\ disk \in SUBSET OldFiles
  /\ creds = FALSE
  /\ quit = FALSE
  /\ crashed = FALSE
  /\ cause = ""
  /\ starts = 0
  /\ net = One(ReqLookup) (+) One(ReqFeed)
  /\ tags = {}
  /\ gui = NoGui
  /\ sb = NoSearch

NextDownload ==
  \/ KeyPress(" ")
  \/ KeyPress("enter")
  \/ StartDownload
  \/ DownloadStat
  \/ DownloadCreate
  \/ DownloadRead
  \/ DownloadTag
  \/ DownloadComplete

SpecDownload == InitDownload /\ [][NextDownload]_vars

(***************************************************************************)
(* The windowed program (specification SpecGui): the callbacks of the       *)
(* widgets run on the UI thread; doSearch, loadPodcast and startDownload    *)
(* start goroutines, which hand closures to the UI thread with fyne.Do.     *)
(***************************************************************************)
\* the goroutines the windowed program may start in one run
MaxRoutines == 4

\* the closures that may wait for the UI thread
MaxQueued == 2

\* the text typed in the search entry: an identifier or a search term
GuiQueries == {<<"1">>, <<"t">>}

GuiUnchanged ==
  UNCHANGED <<m, cmds, workers, creds, quit, crashed, cause, starts, net, feed, sb>>

\* the UI thread writes the data fields fs
UIWrites(fs) == {Access(f, "ui", TRUE) : f \in fs}

UIReads(fs) == {Access(f, "ui", FALSE) : f \in fs}

\* fyne.Do(closure)
Queued(g, closure) == [g EXCEPT !.queue = Append(g.queue, closure)]

WidgetClosure == UIClosure("widget", <<>>, NoInfo, <<>>)

InitGui ==
  /\ gui = App("search")
  /\ m = initialModel(<<"t">>, BaseDir, ProviderApple)
  /\ cmds = EmptyBag
  /\ workers = EmptyBag
  /\ disk \in SUBSET OldFiles
  /\ creds \in BOOLEAN
  /\ quit = FALSE
  /\ crashed = FALSE
  /\ cause = ""
  /\ starts = 0
  /\ net = EmptyBag
  /\ tags = {}
  /\ feed = <<>>
  /\ sb = NoSearch

\* doSearch, on the UI thread: the search button or Enter in the entry
GuiSearch ==
  /\ gui.view = "search"
  /\ gui.spawned < MaxRoutines
  /\ \E query \in GuiQueries :
       gui' = [gui EXCEPT
                 !.routines = @ (+) One([kind |-> IF isNumeric(query)
                                                    THEN "direct" ELSE "search",
                                         res |-> NoResult]),
                 !.spawned = @ + 1]
  /\ UNCHANGED <<disk, tags>>
  /\ GuiUnchanged

\* the goroutine of doSearch for a search term finishes
GuiSearchDone ==
  /\ Len(gui.queue) < MaxQueued
  /\ \E r \in BagToSet(gui.routines) :
       /\ r.kind = "search"
       /\ \E ae \in {NoError, ErrSearch}, pe \in {NoError, ErrSearch},
             ar \in SessionAppleResponses, pr \in SessionIndexResponses :
            /\ ae # NoError => ar = <<>>
            /\ pe # NoError => pr = <<>>
            /\ ~creds => pe = NoError /\ pr = <<>>
            /\ LET res == IF creds
                            THEN searchBothMerge(ar, ae, pr, pe)
                            ELSE [ok |-> ae = NoError, results |-> ar, err |-> ae]
                   closure == IF res.ok
                                THEN UIClosure("setResults", res.results, NoInfo, <<>>)
                                ELSE WidgetClosure
               IN gui' = Queued([gui EXCEPT !.routines = @ (-) One(r)], closure)
  /\ UNCHANGED <<disk, tags>>
  /\ GuiUnchanged

\* resultsList.OnSelected: loadPodcast(result), on the UI thread
GuiSelectResult ==
  /\ gui.view = "search"
  /\ gui.spawned < MaxRoutines
  /\ \E id \in 1..Len(gui.searchResults) :
       gui' = [gui EXCEPT
                 !.routines = @ (+) One([kind |-> "load",
                                         res |-> gui.searchResults[id]]),
                 !.spawned = @ + 1,
                 !.accesses = @ \cup UIReads({"searchResults"})]
  /\ UNCHANGED <<disk, tags>>
  /\ GuiUnchanged

\* the goroutine of loadPodcast, or of doSearch for an identifier, finishes:
\* loadPodcastByID or loadPodcastFromFeed failed, or returned the episodes
GuiLoadDone ==
  /\ Len(gui.queue) < MaxQueued
  /\ \E r \in BagToSet(gui.routines) :
       /\ r.kind \in {"direct", "load"}
       /\ \/ gui' = Queued([gui EXCEPT !.routines = @ (-) One(r)], WidgetClosure)
          \/ \E doc \in Feeds :
               LET episodes == ParseEpisodes(doc)
                   info == IF r.kind = "load" /\ r.res.Source = ProviderPodcastIndex
                             THEN PodcastInfo(r.res.Name, r.res.Artist, r.res.FeedURL)
                             ELSE CatalogInfo
                   closure == IF Len(episodes) = 0
                                THEN WidgetClosure
                                ELSE UIClosure(IF r.kind = "load"
                                                 THEN "setPodcast"
                                                 ELSE "setPodcastDirect",
                                               <<>>, info, episodes)
               IN gui' = Queued([gui EXCEPT !.routines = @ (-) One(r)], closure)
  /\ UNCHANGED <<disk, tags>>
  /\ GuiUnchanged

\* the UI thread runs the closure at the head of its queue
GuiRunQueued ==
  /\ gui.queue # <<>>
  /\ LET c == Head(gui.queue)
         g == [gui EXCEPT !.queue = Tail(gui.queue)]
     IN gui' =
          CASE c.kind = "setResults" ->
                 [g EXCEPT !.searchResults = c.results,
                           !.accesses = @ \cup UIWrites({"searchResults"})]
            [] c.kind \in {"setPodcast", "setPodcastDirect"} ->
                 [g EXCEPT !.podcastInfo = c.info,
                           !.episodes = c.episodes,
                           !.checkAll = IF c.kind = "setPodcast" THEN FALSE ELSE @,
                           !.view = "episodes",
                           !.accesses = @ \cup UIWrites({"podcastInfo", "episodes"})]
            [] c.kind = "finish" -> [g EXCEPT !.view = "episodes"]
            [] OTHER -> g
  /\ UNCHANGED <<disk, tags>>
  /\ GuiUnchanged

\* the callback of the check box of row id of the episode list
GuiToggle ==
  /\ gui.view = "episodes"
  /\ \E id \in 1..Len(gui.episodes) :
       gui' = [gui EXCEPT !.episodes[id].Selected = ~@,
                          !.accesses = @ \cup UIWrites({"episodes"})]
  /\ UNCHANGED <<disk, tags>>
  /\ GuiUnchanged

\* the callback of the Select All check box
GuiSelectAll ==
  /\ gui.view = "episodes"
  /\ LET checked == ~gui.checkAll
     IN gui' = [gui EXCEPT
                  !.checkAll = checked,
                  !.episodes = [i \in 1..Len(gui.episodes) |->
                                  [gui.episodes[i] EXCEPT !.Selected = checked]],
                  !.accesses = @ \cup UIWrites({"episodes"})]
  /\ UNCHANGED <<disk, tags>>
  /\ GuiUnchanged

\* the Back button: showSearchView
GuiBack ==
  /\ gui.view = "episodes"
  /\ gui' = [gui EXCEPT !.view = "search"]
  /\ UNCHANGED <<disk, tags>>
  /\ GuiUnchanged

\* the file the download goroutine writes for episode ep
GuiFilePath(b, ep) == JoinPath(b.dir, currentFile(ep))

\* variant: startDownload does not look at the flag
startDownloadRefused_Never(g) == FALSE

\* if a.downloading { return }
startDownloadRefused(g) == g.downloading

\* startDownload, on the UI thread: the Download button
GuiStartDownload ==
  /\ gui.view = "episodes"
  /\ LET selected == SelectSeq(gui.episodes, LAMBDA ep : ep.Selected)
         g == [gui EXCEPT !.accesses = @ \cup UIReads({"downloading"})]
     IN IF startDownloadRefused(gui)
          THEN gui' = g
          ELSE IF Len(selected) = 0
                 THEN gui' = [g EXCEPT !.accesses = @ \cup UIReads({"episodes"})]
                 ELSE /\ gui.spawned < MaxRoutines
                      /\ gui' =
                           [g EXCEPT
                              !.downloading = TRUE,
                              !.view = "download",
                              !.batch =
                                 Batch(selected,
                                       JoinPath(gui.outputDir,
                                                sanitizeFilename(gui.podcastInfo.Name)),
                                       gui.podcastInfo, 1, "status"),
                              !.spawned = @ + 1,
                              !.accesses = @ \cup UIReads({"episodes", "podcastInfo",
                                                           "outputDir"})
                                             \cup UIWrites({"downloading"})]
  /\ UNCHANGED <<disk, tags>>
  /\ GuiUnchanged

\* the loop of the download goroutine goes on to the next episode, or ends
NextEpisode(b) ==
  IF b.i < Len(b.selected)
    THEN [b EXCEPT !.i = b.i + 1, !.pc = "status"]
    ELSE [b EXCEPT !.pc = "finish"]

\* fyne.Do of the status line of episode i
GuiBatchStatus ==
  /\ gui.batch.pc = "status"
  /\ Len(gui.queue) < MaxQueued
  /\ gui' = Queued([gui EXCEPT !.batch.pc = "download"], WidgetClosure)
  /\ UNCHANGED <<disk, tags>>
  /\ GuiUnchanged

\* downloadFileWithProgress(filePath, ep.AudioURL, callback): the file is on
\* disk already; or the request or os.Create fails; or the copy fails after
\* os.Create; or the file is copied (with or without progress callbacks)
GuiBatchDownload ==
  /\ gui.batch.pc = "download"
  /\ Len(gui.queue) < MaxQueued
  /\ LET b == gui.batch
         path == GuiFilePath(b, b.selected[b.i])
     IN IF path \in disk
          THEN /\ gui' = Queued([gui EXCEPT !.batch.pc = "tag"], WidgetClosure)
               /\ UNCHANGED disk
          ELSE \/ /\ gui' = Queued([gui EXCEPT !.batch = NextEpisode(b)], WidgetClosure)
                  /\ UNCHANGED disk
               \/ /\ gui' = Queued([gui EXCEPT !.batch = NextEpisode(b)], WidgetClosure)
                  /\ disk' = disk \cup {path}
               \/ /\ \E sized \in BOOLEAN :
                       gui' = IF sized
                                THEN Queued([gui EXCEPT !.batch.pc = "tag"],
                                            WidgetClosure)
                                ELSE [gui EXCEPT !.batch.pc = "tag"]
                  /\ disk' = disk \cup {path}
  /\ UNCHANGED tags
  /\ GuiUnchanged

\* addID3Tags(filePath, ep, a.podcastInfo), in the download goroutine
GuiBatchTag ==
  /\ gui.batch.pc = "tag"
  /\ LET b == gui.batch
         ep == b.selected[b.i]
     IN /\ \E saved \in BOOLEAN :
             tags' = tags \cup {TagCall(GuiFilePath(b, ep), ep, gui.podcastInfo, saved)}
        /\ gui' = [gui EXCEPT
                     !.batch = NextEpisode(b),
                     !.accesses = @ \cup {Access("podcastInfo", "download", FALSE)}]
  /\ UNCHANGED disk
  /\ GuiUnchanged

\* fyne.Do of the closure that reports the end of the batch
GuiBatchFinish ==
  /\ gui.batch.pc = "finish"
  /\ Len(gui.queue) < MaxQueued
  /\ gui' = Queued([gui EXCEPT !.batch.pc = "defer"],
                   UIClosure("finish", <<>>, NoInfo, <<>>))
  /\ UNCHANGED <<disk, tags>>
  /\ GuiUnchanged

\* the deferred function of the download goroutine: a.downloading = false
GuiBatchDefer ==
  /\ gui.batch.pc = "defer"
  /\ gui' = [gui EXCEPT
               !.downloading = FALSE,
               !.batch = NoBatch,
               !.accesses = @ \cup {Access("downloading", "download", TRUE)}]
  /\ UNCHANGED <<disk, tags>>
  /\ GuiUnchanged

NextGui ==
  \/ GuiSearch
  \/ GuiSearchDone
  \/ GuiSelectResult
  \/ GuiLoadDone
  \/ GuiRunQueued
  \/ GuiToggle
  \/ GuiSelectAll
  \/ GuiBack
  \/ GuiStartDownload
  \/ GuiBatchStatus
  \/ GuiBatchDownload
  \/ GuiBatchTag
  \/ GuiBatchFinish
  \/ GuiBatchDefer

SpecGui == InitGui /\ [][NextGui]_vars

(***************************************************************************)
(* The parse of a feed with items of every shape (specification SpecFeed):  *)
(* a search has returned one entry of each provider for the podcast RichID. *)
(***************************************************************************)
RichApple == SearchResult(RichID, <<"N">>, "artist", <<"r">>, ProviderApple)
RichIndex == SearchResult(RichID, <<"N">>, "artist", <<"r", "2">>, ProviderPodcastIndex)

\* the session right after searchResultsMsg
InitFeed ==
  /\ m = UpdateSearchResults(initialModel(<<"t">>, BaseDir, ProviderApple),
                             <<RichApple, RichIndex>>).m
  /\ cmds = EmptyBag
  /\ workers = EmptyBag
  /\ disk = {}
  /\ creds = TRUE
  /\ quit = FALSE
  /\ crashed = FALSE
  /\ cause = ""
  /\ starts = 0
  /\ net = One(ReqAppleSearch) (+) One(ReqIndexSearch)
  /\ tags = {}
  /\ feed = <<>>
  /\ gui = NoGui
  /\ sb = NoSearch

NextFeed ==
  \/ KeyPress("down")
  \/ KeyPress("enter")
  \/ KeyPress(" ")
  \/ KeyPress("esc")
  \/ SelectSearchResult
  \/ LoadPodcast
  \/ LoadPodcastFromFeed
  \/ StartDownload

SpecFeed == InitFeed /\ [][NextFeed]_vars

(***************************************************************************)
(* A batch that runs to its end (specification SpecLive): the user selects  *)
(* episodes and starts the download, and presses no cancel or quit key;     *)
(* every request, file operation and read succeeds. Bubble Tea runs each    *)
(* command in a goroutine of its own and Update takes every message sent,   *)
(* so a step of a command or closure that can be taken is taken.            *)
(***************************************************************************)
LiveFeed ==
  <<TitledItem(<<"a">>), ImageItem, TitledItem(<<"b">>), TitledItem(<<"c">>)>>

\* the session right after podcastLoadedMsg
InitLive ==
  /\ feed = LiveFeed
  /\ m = UpdatePodcastLoaded(initialModel(<<"1">>, BaseDir, ProviderApple),
                             CatalogInfo, ParseEpisodes(feed)).m
  /\ cmds = EmptyBag
  /\ workers = EmptyBag
  /\ disk \in SUBSET OldFiles
  /\ creds = FALSE
  /\ quit = FALSE
  /\ crashed = FALSE
  /\ cause = ""
  /\ starts = 0
  /\ net = One(ReqLookup) (+) One(ReqFeed)
  /\ tags = {}
  /\ gui = NoGui
  /\ sb = NoSearch

\* the outcomes of the steps of a download closure in which nothing fails
DownloadStatOk == DownloadStat /\ m'.state # stateError
DownloadCreateOk == DownloadCreate /\ m'.state # stateError
DownloadReadOk == DownloadRead /\ m'.state # stateError

NextLive ==
  \/ KeyPress(" ")
  \/ KeyPress("a")
  \/ KeyPress("down")
  \/ KeyPress("up")
  \/ KeyPress("enter")
  \/ StartDownload
  \/ DownloadStatOk
  \/ DownloadCreateOk
  \/ DownloadReadOk
  \/ DownloadTag
  \/ DownloadComplete

SpecLive ==
  /\ InitLive
  /\ [][NextLive]_vars
  /\ WF_vars(StartDownload)
  /\ WF_vars(DownloadStatOk)
  /\ WF_vars(DownloadCreateOk)
  /\ WF_vars(DownloadReadOk)
  /\ WF_vars(DownloadTag)
  /\ WF_vars(DownloadComplete)

(***************************************************************************)
(* Properties.                                                             *)
(***************************************************************************)
DownloadsInFlight == BagCardinality(workers)

\* C1: when the download of a selected episode fails, the batch goes on: the
\* step that reports the failure advances downloadIndex by one and does not
\* put the session in phase Error.
C1_FailureDoesNotAbortBatch ==
  [][\A w \in BagToSet(workers) :
       WorkerFails(w) =>
         /\ m'.downloadIndex = m.downloadIndex + 1
         /\ m'.state # stateError]_vars

\* C2: downloads are strictly sequential: at most one download task is in
\* flight in every reachable state.
C2_OneDownloadAtATime == DownloadsInFlight <= 1

\* C3: a cancel key pressed in phase Downloading while a download task is in
\* flight does not change the phase: the session reacts at the task boundary.
C3_CancelObservedAtTaskBoundary ==
  [][(m.state = stateDownloading /\ DownloadsInFlight > 0
        /\ (KeyPress("esc") \/ KeyPress("b")))
       => m'.state = stateDownloading]_vars

\* C4: esc or b in phase Downloading moves the session to Selecting, resets
\* downloadIndex, downloadTotal and percent to 0, and leaves the episode list
\* with its selected flags, the podcast info and the files on disk unchanged.
C4_CancelResetsCountersOnly ==
  [][\A key \in {"esc", "b"} :
       (m.state = stateDownloading /\ KeyPress(key)) =>
         /\ m'.state = stateSelecting
         /\ m'.downloadIndex = 0
         /\ m'.downloadTotal = 0
         /\ m'.percent = Zero
         /\ m'.episodes = m.episodes
         /\ m'.searchResults = m.searchResults
         /\ m'.podcastInfo = m.podcastInfo
         /\ disk' = disk]_vars

\* a batch was cancelled while its task was running, with a file on disk
C4_Witness ==
  /\ m.state = stateSelecting
  /\ DownloadsInFlight > 0
  /\ m.downloadIndex = 0 /\ m.downloadTotal = 0
  /\ disk # {}
  /\ \E i \in 1..Len(m.episodes) : m.episodes[i].Selected

\* C5: a download step that finds its destination file issues no network
\* request, succeeds, and has sent a 100% progress signal by the time it
\* goes on to tagging.
C5_ResumeSignalsCompletion ==
  \A w \in BagToSet(workers) :
    w.existed =>
      /\ ~w.fetched
      /\ w.pc \in {"tag", "report"}
      /\ w.emitted # <<>>
      /\ w.emitted[Len(w.emitted)] = Fraction(1, 1)

\* C6: in phase Done the download cursor equals the total, and the total is
\* the number of selected episodes.
C6_DoneOnlyAtTotal ==
  m.state = stateDone =>
    /\ m.downloadIndex = m.downloadTotal
    /\ m.downloadTotal = Len(getSelectedEpisodes(m))

\* the edges of the stated phase graph (selection of a search result passes
\* through Loading)
StatedEdges ==
  { <<stateLoading, stateSearchResults>>, <<stateLoading, stateSelecting>>,
    <<stateLoading, stateError>>,
    <<stateSearchResults, statePreviewPodcast>>, <<stateSearchResults, stateLoading>>,
    <<stateSearchResults, stateError>>,
    <<statePreviewPodcast, stateSearchResults>>,
    <<stateSelecting, statePreviewEpisode>>, <<stateSelecting, stateDownloading>>,
    <<stateSelecting, stateSearchResults>>,
    <<statePreviewEpisode, stateSelecting>>,
    <<stateDownloading, stateDownloading>>, <<stateDownloading, stateDone>>,
    <<stateDownloading, stateSelecting>> }

\* C7: every phase change follows an edge of the stated graph.
C7_PhaseChangesFollowGraph ==
  [][m'.state # m.state => <<m.state, m'.state>> \in StatedEdges]_vars

\* the keys each phase recognises (README, Keyboard Controls, and the help
\* lines of the views)
RecognisedKeys(st) ==
  CASE st = stateSearchResults ->
         {"ctrl+c", "q", "up", "k", "down", "j", "enter", "v"}
    [] st \in {statePreviewPodcast, statePreviewEpisode} ->
         {"ctrl+c", "q", "esc", "b", "v"}
    [] st = stateSelecting ->
         {"ctrl+c", "q", "esc", "b", "up", "k", "down", "j", "pgup", "pgdown",
          " ", "x", "a", "enter", "v"}
    [] st = stateDownloading -> {"ctrl+c", "q", "esc", "b"}
    [] st \in {stateDone, stateError} -> {"ctrl+c", "q", "enter"}
    [] OTHER -> {"ctrl+c", "q"}

\* C8: Update never panics on a key, and a key the current phase does not
\* recognise leaves the session and the running commands as they were.
C8_UnrecognisedKeysAreNoOps ==
  [][/\ ~crashed'
     /\ \A key \in Keys :
          (KeyPress(key) /\ key \notin RecognisedKeys(m.state)) =>
            /\ m' = m
            /\ ~quit'
            /\ cmds' = cmds /\ workers' = workers]_vars

\* a batch in progress, where enter, space, a, v and the arrows are not
\* recognised and leave this very state
C8_Witness ==
  /\ m.state = stateDownloading
  /\ m.downloadIndex = 1 /\ m.downloadTotal = 2
  /\ DownloadsInFlight = 1
  /\ Running

\* the claim's normalization: lowercased, trailing slash removed
C9_Normalized(u) ==
  LET t == IF Len(u) > 0 /\ u[Len(u)] = "/" THEN SubSeq(u, 1, Len(u) - 1) ELSE u
  IN [i \in 1..Len(t) |-> LowerChar(t[i])]

\* the two provider lists of a finished call, in append order
AppendOrder == sb.appleResults \o sb.piResults

Merged == sb.out[1].results

SearchSucceeded == sb.pc = "done" /\ sb.out[1].ok

\* C9: the merged result holds exactly one entry for each normalized feed URL
\* of either list, and it is the first entry with that URL in append order.
C9_Dedup ==
  SearchSucceeded =>
    /\ \A i \in 1..Len(AppendOrder) :
         Cardinality({j \in 1..Len(Merged) :
                        C9_Normalized(Merged[j].FeedURL)
                          = C9_Normalized(AppendOrder[i].FeedURL)}) = 1
    /\ \A j \in 1..Len(Merged) :
         \E i \in 1..Len(AppendOrder) :
           /\ AppendOrder[i] = Merged[j]
           /\ \A k \in 1..(i - 1) :
                C9_Normalized(AppendOrder[k].FeedURL)
                  # C9_Normalized(Merged[j].FeedURL)

\* an Apple entry displaced a Podcast Index entry that differs from it only
\* by case and trailing slash
C9_Witness ==
  /\ SearchSucceeded
  /\ \E i \in 1..Len(sb.appleResults), j \in 1..Len(sb.piResults) :
       /\ sb.appleResults[i].FeedURL # sb.piResults[j].FeedURL
       /\ C9_Normalized(sb.appleResults[i].FeedURL)
            = C9_Normalized(sb.piResults[j].FeedURL)
       /\ \E k \in 1..Len(Merged) : Merged[k] = sb.appleResults[i]
       /\ \A k \in 1..Len(Merged) : Merged[k] # sb.piResults[j]
  /\ Len(Merged) >= 2

\* position of entry r in the provider response rs (entries of one response
\* differ by their identifier), 0 when absent
PositionIn(rs, r) ==
  IF \E i \in 1..Len(rs) : rs[i] = r
    THEN CHOOSE i \in 1..Len(rs) : rs[i] = r
    ELSE 0

ResponseOf(r) ==
  IF r.Source = ProviderApple THEN sb.appleResults ELSE sb.piResults

\* C10: the merged result is a subsequence of the Apple list followed by a
\* subsequence of the Podcast Index list.
C10_Ordering ==
  SearchSucceeded =>
    /\ \A j \in 1..Len(Merged) : PositionIn(ResponseOf(Merged[j]), Merged[j]) > 0
    /\ \A j \in 1..Len(Merged), k \in 1..Len(Merged) :
         j < k =>
           /\ ~(Merged[j].Source = ProviderPodcastIndex
                  /\ Merged[k].Source = ProviderApple)
           /\ Merged[j].Source = Merged[k].Source =>
                PositionIn(ResponseOf(Merged[j]), Merged[j])
                  < PositionIn(ResponseOf(Merged[k]), Merged[k])

\* two Apple entries and a Podcast Index entry were all retained
C10_Witness ==
  /\ SearchSucceeded
  /\ Cardinality({j \in 1..Len(Merged) : Merged[j].Source = ProviderApple}) >= 2
  /\ \E j \in 1..Len(Merged) : Merged[j].Source = ProviderPodcastIndex

\* one call of searchBoth has returned
SearchDone == sb.pc = "done"

\* C11: dual-provider search is a join: nothing is delivered while a query
\* is still running, the merge runs only after both queries have finished
\* and reads their final results and errors, each provider is queried once,
\* and exactly one outcome (merged list or error) reaches the session.
C11_SearchIsJoin ==
  /\ Len(sb.out) <= 1
  /\ ~SearchDone =>
       /\ sb.out = <<>>
       /\ m.state = stateLoading /\ m.searchResults = <<>>
       /\ BagCardinality(cmds) = 1
  /\ SearchDone =>
       /\ sb.appleDone /\ sb.piDone
       /\ Len(sb.out) = 1
       /\ cmds = EmptyBag
       /\ net = One(ReqAppleSearch) (+) One(ReqIndexSearch)
       /\ IF sb.out[1].ok
            THEN /\ m.searchResults = sb.out[1].results
                 /\ m.state = IF sb.out[1].results = <<>>
                                THEN stateError ELSE stateSearchResults
            ELSE /\ m.state = stateError
                 /\ m.errorMsg = sb.out[1].err
                 /\ m.searchResults = <<>>

\* both queries answered with entries and the one merged list is in the session
C11_Witness ==
  /\ SearchDone
  /\ sb.appleResults # <<>> /\ sb.piResults # <<>>
  /\ m.state = stateSearchResults
  /\ Len(m.searchResults) = Len(sb.appleResults) + Len(sb.piResults)
  /\ cmds = EmptyBag

\* positions of the entries of rs that are the first with their normalized
\* feed URL
FirstOccurrences(rs) ==
  {i \in 1..Len(rs) :
     \A k \in 1..(i - 1) :
       C9_Normalized(rs[k].FeedURL) # C9_Normalized(rs[i].FeedURL)}

\* rs restricted to its first occurrences, in the order of rs
Deduplicated(rs) ==
  LET I == FirstOccurrences(rs)
  IN [j \in 1..Cardinality(I) |->
        rs[CHOOSE i \in I : Cardinality({k \in I : k <= i}) = j]]

\* C12: when exactly one provider fails the search succeeds with the
\* deduplicated results of the other provider; the search fails exactly when
\* both providers fail, and its error then carries both providers' errors.
C12_PartialFailure ==
  SearchDone =>
    LET out == sb.out[1]
    IN /\ (sb.appleErr # NoError /\ sb.piErr = NoError) =>
            out.ok /\ out.results = Deduplicated(sb.piResults)
       /\ (sb.appleErr = NoError /\ sb.piErr # NoError) =>
            out.ok /\ out.results = Deduplicated(sb.appleResults)
       /\ ~out.ok <=> (sb.appleErr # NoError /\ sb.piErr # NoError)
       /\ ~out.ok =>
            /\ \E i \in 1..Len(out.err) : out.err[i] = sb.appleErr
            /\ \E i \in 1..Len(out.err) : out.err[i] = sb.piErr
            /\ m.state = stateError /\ m.errorMsg = out.err

\* Apple failed and Podcast Index answered with two entries for one feed
C12_Witness ==
  /\ SearchDone
  /\ sb.appleErr # NoError /\ sb.piErr = NoError
  /\ Len(sb.piResults) = 2
  /\ sb.out[1].ok /\ Len(sb.out[1].results) = 1
  /\ m.state = stateSearchResults

\* the session was started with a search query
QuerySession == m.searchQuery # <<>>

\* number of requests of one kind issued so far
Issued(req) == CopiesIn(req, net)

\* C13: a session whose provider selection names one provider queries only
\* that provider, with or without Podcast Index credentials.
C13_SingleProviderOnly ==
  QuerySession =>
    /\ m.searchProvider = ProviderApple => Issued(ReqIndexSearch) = 0
    /\ m.searchProvider = ProviderPodcastIndex => Issued(ReqAppleSearch) = 0

\* C14: without both credentials a query falls back to an Apple-only search,
\* whatever the provider selection, and the session does not end in Error
\* for the missing credentials.
C14_MissingCredentialsFallBack ==
  (QuerySession /\ ~creds) =>
    /\ Issued(ReqIndexSearch) = 0
    /\ m.state # stateLoading => Issued(ReqAppleSearch) = 1
    /\ ~(m.state = stateError /\ m.errorMsg = ErrCredentials)

\* the commands that run a search
SearchKinds == {"searchPodcasts", "searchPodcastIndex", "searchBoth"}

\* the session waits for the outcome of the search it was started with
SearchLoading ==
  /\ m.state = stateLoading
  /\ \E c \in BagToSet(cmds) : c.kind \in SearchKinds

\* C15: while the session waits in Loading for its search, only the search
\* outcome moves it on: a non-empty list to SearchResults with the cursor on
\* the first entry, an empty list or a failure to Error; a quit key ends the
\* program and every other key changes nothing.
C15_LoadingLeftBySearchOutcome ==
  [][SearchLoading =>
       /\ m'.state \in {stateLoading, stateSearchResults, stateError}
       /\ m'.state = stateSearchResults =>
            /\ cmds' = EmptyBag
            /\ m'.searchResults # <<>>
            /\ m'.cursor = 0 /\ m'.offset = 0
       /\ m'.state = stateError =>
            /\ cmds' = EmptyBag
            /\ m'.searchResults = <<>>
       /\ m'.state = stateLoading =>
            /\ m' = m /\ cmds' = cmds
       /\ \A key \in Keys :
            KeyPress(key) =>
              /\ m' = m /\ cmds' = cmds /\ workers' = workers
              /\ quit' <=> key \in {"ctrl+c", "q"}]_vars

\* the search answered with two entries and the session shows them
C15_Witness ==
  /\ m.state = stateSearchResults
  /\ Len(m.searchResults) = 2
  /\ m.cursor = 0
  /\ starts = 0
  /\ cmds = EmptyBag
  /\ Running

\* the session was started with a direct identifier
DirectSession == m.searchQuery = <<>>

\* C16: a session started with a direct identifier never shows search
\* results and never sends a search query; it performs one lookup and at most
\* one feed parse, and it is past Loading without error only after both.
C16_DirectIdentifierBypassesSearch ==
  DirectSession =>
    /\ m.state # stateSearchResults /\ m.state # statePreviewPodcast
    /\ m.searchResults = <<>>
    /\ Issued(ReqAppleSearch) = 0 /\ Issued(ReqIndexSearch) = 0
    /\ Issued(ReqLookup) <= 1 /\ Issued(ReqFeed) <= 1
    /\ \A c \in BagToSet(cmds) : c.kind \notin SearchKinds
    /\ m.state = stateLoading => net = EmptyBag
    /\ m.state \notin {stateLoading, stateError} =>
         Issued(ReqLookup) = 1 /\ Issued(ReqFeed) = 1

\* the identifier's podcast is loaded and the user went back and forth in it
C16_Witness ==
  /\ DirectSession
  /\ m.state = stateSelecting
  /\ m.podcastInfo = CatalogInfo
  /\ Len(m.episodes) = 2
  /\ m.cursor = 1
  /\ Issued(ReqLookup) = 1 /\ Issued(ReqFeed) = 1

\* the positional argument the program was started with
ArgInput == IF m.podcastID # <<>> THEN m.podcastID ELSE m.searchQuery

\* an all-digit token, optionally prefixed with id
IsIdentifierToken(s) ==
  LET AllDigits(t) == t # <<>> /\ \A i \in 1..Len(t) : IsDigitChar(t[i])
  IN \/ AllDigits(s)
     \/ /\ Len(s) > 2 /\ s[1] = "i" /\ s[2] = "d"
        /\ AllDigits(SubSeq(s, 3, Len(s)))

\* C17: the program starts a direct lookup exactly when the positional
\* argument is an all-digit token optionally prefixed with id, and a search
\* for every other argument.
C17_IdentifierClassification ==
  \A c \in BagToSet(cmds) :
    /\ c.kind \in SearchKinds \cup {"loadPodcast"}
    /\ c.kind = "loadPodcast" <=> IsIdentifierToken(ArgInput)

\* the command that loads a selected search result
LoaderOf(result) ==
  IF result.Source = ProviderPodcastIndex
    THEN Cmd("loadPodcastFromFeed", result, NoTask)
    ELSE Cmd("loadPodcast", result, NoTask)

\* C18: a selected search result puts the session in Loading and starts the
\* loader of its source: an Apple result is looked up by identifier and its
\* feed parsed, a Podcast Index result has its own feed URL parsed and no
\* lookup is sent; either loader ends in Selecting on success and in Error
\* on failure.
C18_LoadDispatchesOnSource ==
  [][/\ SelectSearchResult =>
          /\ m'.state = stateLoading
          /\ net' = net
          /\ \E c \in BagToSet(cmds) :
               /\ c.kind = "selectSearchResultMsg"
               /\ cmds' = (cmds (-) One(c)) (+) One(LoaderOf(c.res))
     /\ LoadPodcastFromFeed =>
          /\ Issued(ReqLookup)' = Issued(ReqLookup)
          /\ Issued(ReqFeed)' = Issued(ReqFeed) + 1
          /\ m'.state \in {stateSelecting, stateError}
          /\ m'.state = stateSelecting =>
               /\ m'.episodes # <<>>
               /\ \E c \in BagToSet(cmds) :
                    /\ c.kind = "loadPodcastFromFeed"
                    /\ c.res.Source = ProviderPodcastIndex
                    /\ m'.podcastInfo.FeedURL = c.res.FeedURL
     /\ LoadPodcast =>
          /\ Issued(ReqLookup)' = Issued(ReqLookup) + 1
          /\ Issued(ReqFeed)' <= Issued(ReqFeed) + 1
          /\ m'.state \in {stateSelecting, stateError}
          /\ m'.state = stateSelecting =>
               /\ m'.episodes # <<>>
               /\ Issued(ReqFeed)' = Issued(ReqFeed) + 1
               /\ \A c \in BagToSet(cmds) :
                    c.kind = "loadPodcast" => c.res.Source # ProviderPodcastIndex
     /\ (QuerySession /\ m.searchProvider = ProviderPodcastIndex) =>
          Issued(ReqLookup)' = 0]_vars

\* a Podcast Index result was selected and its feed loaded without a lookup
C18_Witness ==
  /\ m.state = stateSelecting
  /\ m.podcastInfo.FeedURL = IndexB.FeedURL
  /\ Issued(ReqLookup) = 0
  /\ Issued(ReqFeed) = 1
  /\ Issued(ReqIndexSearch) = 1

\* number of selected episodes of the session
SelectedCount == Cardinality({i \in 1..Len(m.episodes) : m.episodes[i].Selected})

\* C19: enter in Selecting changes nothing when no episode is selected;
\* otherwise the session enters Downloading with the download cursor at 0,
\* the total equal to the number of selected episodes and the output
\* directory equal to the base directory joined with the sanitized podcast
\* name.
C19_StartDownload ==
  [][(m.state = stateSelecting /\ KeyPress("enter")) =>
       IF SelectedCount = 0
         THEN /\ m' = m
              /\ cmds' = cmds /\ workers' = workers
              /\ quit' = quit
         ELSE /\ m'.state = stateDownloading
              /\ m'.downloadIndex = 0
              /\ m'.downloadTotal = SelectedCount
              /\ m'.outputDir = <<m.baseDir, sanitizeFilename(m.podcastInfo.Name)>>
              /\ m'.episodes = m.episodes]_vars

\* a batch of two episodes was just started from the identifier's podcast
C19_Witness ==
  /\ m.state = stateDownloading
  /\ m.downloadIndex = 0 /\ m.downloadTotal = 2
  /\ m.outputDir = <<BaseDir, <<"N">>>>
  /\ \E c \in BagToSet(cmds) : c.kind = "startDownloadMsg"
  /\ workers = EmptyBag

\* all fields of the model but the episode list
OtherFields == DOMAIN m \ {"episodes"}

\* C20: a toggle in Selecting flips the selected flag of the episode under
\* the cursor and changes nothing else: every other episode, every other
\* field of that episode, the cursor and the phase stay as they were; a
\* second toggle of the same episode restores the selection.
C20_ToggleFlipsOneEpisode ==
  [][m.state = stateSelecting =>
       /\ \A key \in {" ", "x"} :
            KeyPress(key) =>
              /\ Len(m'.episodes) = Len(m.episodes)
              /\ \A i \in 1..Len(m.episodes) :
                   IF i = m.cursor + 1
                     THEN /\ m'.episodes[i].Selected = ~m.episodes[i].Selected
                          /\ [m'.episodes[i] EXCEPT !.Selected = ~@] = m.episodes[i]
                     ELSE m'.episodes[i] = m.episodes[i]
              /\ \A f \in OtherFields : m'[f] = m[f]
              /\ cmds' = cmds /\ workers' = workers /\ disk' = disk
              /\ quit' = quit /\ crashed' = crashed
       /\ \A key1 \in {" ", "x"}, key2 \in {" ", "x"} :
            UpdateKey(UpdateKey(m, key1).m, key2).m = m]_vars

\* the second of two episodes was toggled on while the first stayed off
C20_Witness ==
  /\ m.state = stateSelecting
  /\ Len(m.episodes) = 2
  /\ m.cursor = 1
  /\ m.episodes[2].Selected /\ ~m.episodes[1].Selected
  /\ Running

\* every episode of model mm is selected / no episode of mm is selected
AllSelected(mm) == \A i \in 1..Len(mm.episodes) : mm.episodes[i].Selected

NoneSelected(mm) == \A i \in 1..Len(mm.episodes) : ~mm.episodes[i].Selected

HasPrefix(s, p) == Len(s) >= Len(p) /\ SubSeq(s, 1, Len(p)) = p

\* the ordinal indices of an episode list, in list order
Indices(episodes) == [k \in 1..Len(episodes) |-> episodes[k].Index]

\* the positions of the items of a feed document that carry audio
AudioPositions(items) ==
  {i \in 1..Len(items) :
     \E k \in 1..Len(items[i].Enclosures) :
        IsAudio(items[i].Enclosures[k]) /\ items[i].Enclosures[k].URL # ""}

\* the k-th audio position of a feed document, in ascending order
PositionsInOrder(items) ==
  [k \in 1..Cardinality(AudioPositions(items)) |->
     CHOOSE i \in AudioPositions(items) :
        Cardinality({j \in AudioPositions(items) : j < i}) = k - 1]

SameEpisode(a, b) ==
  a.Index = b.Index /\ a.Title = b.Title /\ a.AudioURL = b.AudioURL

\* C22: the ordinal index of an episode is the 1-based position of its item
\* in the feed: the indices of the episode list change only by becoming the
\* audio positions of the feed just parsed; every download command created
\* is for an episode of the list, with a file name that starts with that
\* episode's index in three digits; every tag written carries that index as
\* its track number, whatever the position of the episode among the
\* selected ones.
C22_OrdinalIndex ==
  [][/\ Indices(m.episodes)' # Indices(m.episodes)
          => Indices(m.episodes)' = PositionsInOrder(feed')
     /\ \A c \in BagToSet(cmds') \ BagToSet(cmds) :
          c.kind = "download"
            => /\ \E k \in 1..Len(m'.episodes) :
                    /\ SameEpisode(m'.episodes[k], c.task.ep)
                    /\ m'.episodes[k].Selected
               /\ HasPrefix(c.task.file,
                            Pad3(c.task.ep.Index) \o <<" ", "-", " ">>)
     /\ \A t \in tags' \ tags :
          \E w \in BagToSet(workers) :
             /\ t.path = FilePath(w)
             /\ t.track = Itoa(w.task.ep.Index)
             /\ HasPrefix(t.path[2], Pad3(w.task.ep.Index))]_vars

\* the second episode of two is downloaded alone, as the first of its batch,
\* and is tagged with track 2 under a file name starting with 002
C22_Witness ==
  /\ m.state = stateDownloading
  /\ m.downloadIndex = 0
  /\ Len(m.episodes) = 2
  /\ ~m.episodes[1].Selected
  /\ \E t \in tags : t.track = <<"2">> /\ HasPrefix(t.path[2], <<"0", "0", "2">>)

(***************************************************************************)
(* C23, C24: folder and file names.                                        *)
(***************************************************************************)
\* the characters no file name may hold
ForbiddenChars == {"<", ">", ":", "\"", "/", "\\", "|", "?", "*"}

\* the text left of a name once the forbidden characters are taken out and
\* the white space around the rest is dropped
Kept(name) ==
  LET stripped == SelectSeq(name, LAMBDA c : c \notin ForbiddenChars)
      first == {i \in 1..Len(stripped) : stripped[i] \notin WhiteSpace}
  IN IF first = {} THEN <<>>
     ELSE SubSeq(stripped,
                 CHOOSE i \in first : \A j \in first : i <= j,
                 CHOOSE i \in first : \A j \in first : i >= j)

\* the contract of sanitizeFilename without its last clause
WellFormedName(out) ==
  /\ \A i \in 1..Len(out) : out[i] \notin ForbiddenChars
  /\ Len(out) <= 100
  /\ out # <<>>

\* the names the session has computed with sanitizeFilename, each with the
\* text it was computed from: the folder and the file of every download
\* command and closure (the file without its prefix and its extension)
Tasks == {c.task : c \in {d \in BagToSet(cmds) : d.kind = "download"}}
           \cup {w.task : w \in BagToSet(workers)}

SanitizedPairs ==
  {<<t.dir[2], t.info.Name>> : t \in Tasks}
    \cup {<<SubSeq(t.file, Len(Pad3(t.ep.Index)) + 4, Len(t.file) - 4),
            t.ep.Title>> : t \in Tasks}

\* C23 as stated: every name sanitizeFilename returns holds no forbidden
\* character, is at most 100 long and is not empty, and it is the literal
\* episode exactly when stripping and trimming its input leave nothing.
C23_AsStated ==
  \A p \in SanitizedPairs :
     /\ WellFormedName(p[1])
     /\ p[1] = <<"e", "p", "i", "s", "o", "d", "e">> <=> Kept(p[2]) = <<>>

\* C23 amended: every name sanitizeFilename returns holds no forbidden
\* character, is at most 100 long and is not empty, and it is the literal
\* episode exactly when stripping and trimming its input leave nothing or
\* leave the text episode itself.
C23_Sanitization ==
  \A p \in SanitizedPairs :
     /\ WellFormedName(p[1])
     /\ p[1] = <<"e", "p", "i", "s", "o", "d", "e">>
          <=> Kept(p[2]) \in {<<>>, <<"e", "p", "i", "s", "o", "d", "e">>}

\* a name longer than the limit that holds a forbidden character has been
\* sanitized to exactly 100 characters
C23_Witness ==
  \E p \in SanitizedPairs :
     /\ Len(p[2]) > 100
     /\ \E i \in 1..Len(p[2]) : p[2][i] \in ForbiddenChars
     /\ Len(p[1]) = 100

\* the characters of file names in the order of their codes
ByteOrder ==
  <<" ", "-", ".", "/", "0", "1", "2", "3", "4", "5", "6", "7", "8", "9",
    "a", "b", "d", "e", "i", "m", "o", "p", "s">>

Code(c) == CHOOSE i \in 1..Len(ByteOrder) : ByteOrder[i] = c

\* a sorts before b, byte by byte
SortsBefore(a, b) ==
  \E k \in 1..Len(b) :
     /\ \A i \in 1..(k - 1) : i <= Len(a) /\ a[i] = b[i]
     /\ \/ Len(a) = k - 1
        \/ Len(a) >= k /\ Code(a[k]) < Code(b[k])

IsDigit(c) == c \in {"0", "1", "2", "3", "4", "5", "6", "7", "8", "9"}

\* C24: the file names of one feed sort in feed order: the file name of the
\* episode with the smaller ordinal index sorts before the other's, and
\* every file name starts with exactly three digits.
C24_SortInFeedOrder ==
  /\ \A t \in Tasks :
       /\ Len(t.file) > 3
       /\ \A i \in 1..3 : IsDigit(t.file[i])
       /\ ~IsDigit(t.file[4])
  /\ \A t \in Tasks :
       \A k \in 1..Len(m.episodes) :
          m.episodes[k].Index < t.ep.Index
            => SortsBefore(currentFile(m.episodes[k]), t.file)

(***************************************************************************)
(* C25, C29: the progress messages of one download.                        *)
(***************************************************************************)
\* fraction a is at most fraction b (both denominators positive)
AtMost(a, b) == a.num * b.den <= b.num * a.den

BelowOne(a) == a.num < a.den

\* the download closure has left the copy loop without an error
Copied(w) == w.fetched /\ w.pc \in {"tag", "report"}

\* C25: the progress fractions one download sends do not decrease (stated of
\* every two consecutive ones), each lies between 0 and 1, and once a
\* download of declared size has been copied without error the last
\* fraction sent is exactly 1.
C25_ProgressMonotone ==
  \A w \in BagToSet(workers) :
     /\ \A i \in 1..Len(w.emitted) :
          /\ w.emitted[i].den > 0
          /\ w.emitted[i].num >= 0
          /\ w.emitted[i].num <= w.emitted[i].den
     /\ Len(w.emitted) = 2 => AtMost(w.emitted[1], w.emitted[2])
     /\ Copied(w) /\ w.totalSize > 0
          => /\ w.emitted # <<>>
             /\ w.emitted[Len(w.emitted)].num = w.emitted[Len(w.emitted)].den

\* a long download of declared size has been copied: the fraction sent last
\* is 1 and the one before it is smaller
C25_Witness ==
  \E w \in BagToSet(workers) :
     /\ w.pc = "report"
     /\ w.totalSize > 100
     /\ Len(w.emitted) = 2
     /\ BelowOne(w.emitted[1])
     /\ ~BelowOne(w.emitted[2])

\* C29: a download of declared size sends a progress fraction only when it
\* is at least one hundredth above the one sent before (above 0 for the
\* first) or is 1: two consecutive fractions below 1 differ by at least
\* 0.01; a download of no declared size sends none.
C29_ProgressThrottled ==
  \A w \in BagToSet(workers) :
     /\ w.totalSize <= 0 => w.emitted = <<>>
     /\ Len(w.emitted) = 1 /\ BelowOne(w.emitted[1])
          => w.emitted[1].num * 100 >= w.emitted[1].den
     /\ Len(w.emitted) = 2 /\ BelowOne(w.emitted[2])
          => (w.emitted[2].num - w.emitted[1].num) * 100 >= w.emitted[2].den

\* two fractions below 1 have been sent that are exactly one hundredth
\* apart, and a body of no declared size is being copied in silence
C29_Witness ==
  \E w \in BagToSet(workers) :
     /\ w.pc = "read"
     /\ Len(w.emitted) = 2
     /\ BelowOne(w.emitted[2])
     /\ (w.emitted[2].num - w.emitted[1].num) * 100 = w.emitted[2].den

(***************************************************************************)
(* C26: tagging and the report of completion.                              *)
(***************************************************************************)
\* the step reports the completion of the download closure w
Reports(w) == w.pc = "report" /\ workers' = workers (-) One(w)

\* C26: a download closure that has copied its file, or found it on disk,
\* reports completion only after addID3Tags has been called on its file;
\* whether the tags were saved or not, the report appends the file to the
\* downloaded ones, advances downloadIndex by one and does not put the
\* session in phase Error.
C26_TagBeforeReport ==
  [][\A w \in BagToSet(workers) :
       /\ w.pc = "report"
            => \E t \in tags : t.path = FilePath(w) /\ t.saved = ~w.tagErr
       /\ Reports(w)
            => /\ m'.downloaded = Append(m.downloaded, FilePath(w))
               /\ m'.downloadIndex = m.downloadIndex + 1
               /\ m'.state = stateError => m.state = stateError]_vars

\* a file whose tags could not be saved has been reported as downloaded, and
\* the batch is done
C26_Witness ==
  /\ m.state = stateDone
  /\ \E i \in 1..Len(m.downloaded) :
       /\ \E t \in tags : t.path = m.downloaded[i] /\ ~t.saved
       /\ ~\E t \in tags : t.path = m.downloaded[i] /\ t.saved

(***************************************************************************)
(* C27: who accesses the fields of the session.                            *)
(***************************************************************************)
\* the UI thread is in startDownload while the download goroutine has its
\* deferred write of a.downloading still to do: the read and the write are
\* not ordered
RaceOnDownloading == gui.batch.pc = "defer" /\ gui.view = "episodes"

\* the download goroutine is about to read a.podcastInfo for addID3Tags
\* while the UI thread is about to run a closure that writes it
RaceOnPodcastInfo ==
  /\ gui.batch.pc = "tag"
  /\ gui.queue # <<>>
  /\ Head(gui.queue).kind \in {"setPodcast", "setPodcastDirect"}

\* C27: the data fields of the session are written by the event loop only
\* (the UI thread of the windowed program), never by a goroutine, and no
\* access of a field by one thread can meet a write of the field by
\* another.
C27_OnlyEventLoopWrites ==
  /\ \A a \in gui.accesses : a.write => a.thread = "ui"
  /\ ~RaceOnDownloading
  /\ ~RaceOnPodcastInfo

(***************************************************************************)
(* C28: what ends the program.                                             *)
(***************************************************************************)
\* C28 as stated: the program ends only on a quit intent (q, ctrl+c, or
\* enter in Done or Error), never on a back, cancel, navigation or
\* selection key nor on a worker event, and it never crashes.
C28_AsStated ==
  /\ ~crashed
  /\ quit => \/ cause \in {"q", "ctrl+c"}
             \/ cause = "enter" /\ m.state \in {stateDone, stateError}

\* C28 amended: the program ends only on a quit intent (q, ctrl+c, or enter
\* in Done or Error) or on a back key (esc, b) in Selecting when the
\* session has no search results; never on a cancel, navigation or
\* selection key nor on a worker event, and it never crashes.
C28_EndsOnlyByQuit ==
  /\ ~crashed
  /\ quit => \/ cause \in {"q", "ctrl+c"}
             \/ cause = "enter" /\ m.state \in {stateDone, stateError}
             \/ /\ cause \in {"esc", "b"}
                /\ m.state = stateSelecting
                /\ m.searchResults = <<>>

\* the program has ended in the episode list of a session started with an
\* identifier
C28_Witness ==
  /\ quit
  /\ cause = "esc"
  /\ m.state = stateSelecting
  /\ m.searchResults = <<>>
  /\ m.podcastID # <<>>

(***************************************************************************)
(* C30: which items of a feed become episodes.                             *)
(***************************************************************************)
\* the enclosure is audio by its declared type or by its URL
Matches(enc) == enc.typeHasAudio \/ enc.urlEndsMp3

\* the item has an audio enclosure
Exposes(item) == \E k \in 1..Len(item.Enclosures) : Matches(item.Enclosures[k])

\* the first audio enclosure of an item that has one
FirstMatch(item) ==
  item.Enclosures[CHOOSE k \in 1..Len(item.Enclosures) :
                    /\ Matches(item.Enclosures[k])
                    /\ \A j \in 1..(k - 1) : ~Matches(item.Enclosures[j])]

\* the positions in S in ascending order
Ascending(S) ==
  [k \in 1..Cardinality(S) |->
     CHOOSE i \in S : Cardinality({j \in S : j < i}) = k - 1]

\* the episode list is made of the items of the feed at the positions S
EpisodesAt(S) ==
  /\ Indices(m.episodes) = Ascending(S)
  /\ \A k \in 1..Len(m.episodes) :
       /\ m.episodes[k].Title = feed[m.episodes[k].Index].Title
       /\ m.episodes[k].AudioURL = FirstMatch(feed[m.episodes[k].Index]).URL

\* in Selecting the list is not empty and every episode has an audio URL
SelectingHasAudio ==
  m.state = stateSelecting
    => /\ m.episodes # <<>>
       /\ \A k \in 1..Len(m.episodes) : m.episodes[k].AudioURL # ""

\* the items of the feed parsed last that have an audio enclosure
Exposing == {i \in 1..Len(feed) : Exposes(feed[i])}

\* the items of the feed parsed last whose first audio enclosure has a URL
Usable == {i \in Exposing : FirstMatch(feed[i]).URL # ""}

\* the step fetches a feed
FetchesFeed == Issued(ReqFeed)' > Issued(ReqFeed)

\* C30 as stated: the episodes are the items of the feed that have an audio
\* enclosure, each with its 1-based position as ordinal index; the load of
\* a feed without such an item ends in an error, so that in Selecting the
\* list is not empty and every episode has a non-empty audio URL.
C30_AsStated ==
  [][/\ (m.state = stateSelecting => EpisodesAt(Exposing))'
     /\ FetchesFeed /\ Exposing' = {} => m'.state = stateError
     /\ SelectingHasAudio']_vars

\* C30 amended: the episodes are the items of the feed whose first audio
\* enclosure has a non-empty URL, each with its 1-based position as
\* ordinal index; the load of a feed without such an item ends in an
\* error, so that in Selecting the list is not empty and every episode has
\* a non-empty audio URL.
C30_EpisodesOfFeed ==
  [][/\ (m.state = stateSelecting => EpisodesAt(Usable))'
     /\ FetchesFeed /\ Usable' = {} => m'.state = stateError
     /\ SelectingHasAudio']_vars

\* a feed whose first item has an audio type without a URL and whose second
\* item is audio by its URL only has been parsed into one episode, number 2
C30_Witness ==
  /\ m.state = stateSelecting
  /\ Len(feed) = 2
  /\ feed[1] = BlankItem
  /\ feed[2] = Mp3Item
  /\ Len(m.episodes) = 1
  /\ m.episodes[1].Index = 2

(***************************************************************************)
(* C31: events of an abandoned download.                                   *)
(***************************************************************************)
\* the step is an event of a running download closure: the closure moves
\* on, or ends and is perhaps followed by the next one
WorkerEvent ==
  /\ workers' # workers
  /\ BagCardinality(workers') <= BagCardinality(workers)

\* C31: once a cancel has brought the session back to Selecting, the events
\* of the abandoned download (progress, completion, failure) leave the
\* phase, downloadIndex, downloadTotal, percent and downloaded as they are.
C31_LateEventsIgnored ==
  [][m.state = stateSelecting /\ WorkerEvent
       => /\ m'.state = stateSelecting
          /\ m'.downloadIndex = m.downloadIndex
          /\ m'.downloadTotal = m.downloadTotal
          /\ m'.percent = m.percent
          /\ m'.downloaded = m.downloaded]_vars

(* C32: what a failed download leaves behind. *)
\* the closure w, having created its file, fails in the copy loop
FailsInCopy(w) ==
  /\ w.pc = "read"
  /\ ~w.existed
  /\ workers' = workers (-) One(w)

\* C32: a download that fails leaves no file at its destination path: when
\* a closure fails in the copy loop, after os.Create, its path is not on disk
\* afterwards, so a later os.Stat cannot take the episode for a downloaded one.
C32_FailureLeavesNoFile ==
  [][\A w \in BagToSet(workers) :
       FailsInCopy(w) => FilePath(w) \notin disk']_vars

(* C33: podcast loads and the episode list. *)
LoadKinds == {"loadPodcast", "loadPodcastFromFeed"}

\* the podcast loads that have been started and have not delivered yet
LoadsInFlight(cs) ==
  BagCardinality([c \in {d \in BagToSet(cs) : d.kind \in LoadKinds}
                    |-> CopiesIn(c, cs)])

\* a podcast load delivers its message
LoadEvent ==
  \E c \in BagToSet(cmds) : c.kind \in LoadKinds /\ cmds' = cmds (-) One(c)

\* C33: at most one podcast load is in flight, and a load that delivers while
\* the phase is Selecting, PreviewEpisode or Downloading leaves the episode
\* list, the podcast info and the selection as they are.
C33_LoadsOnlyFromLoading ==
  [][/\ LoadsInFlight(cmds') <= 1
     /\ (LoadEvent /\ m.state \in {stateSelecting, statePreviewEpisode, stateDownloading})
          => /\ m'.episodes = m.episodes
             /\ m'.podcastInfo = m.podcastInfo
             /\ m'.selected = m.selected]_vars

(* C34: the cursor and the list shown. *)
\* C34: the cursor is an index of the list shown: of the episodes in
\* Selecting and PreviewEpisode, of the search results in SearchResults and
\* PreviewPodcast (indices counted from 0, as in the source).
C34_CursorValid ==
  /\ m.state \in {stateSelecting, statePreviewEpisode}
       => 0 <= m.cursor /\ m.cursor < Len(m.episodes)
  /\ m.state \in {stateSearchResults, statePreviewPodcast}
       => 0 <= m.cursor /\ m.cursor < Len(m.searchResults)

\* the cursor is on the second episode of a podcast reached from a list of one
\* search result
C34_Witness ==
  /\ m.state = stateSelecting
  /\ m.cursor = 1
  /\ Len(m.searchResults) = 1

(* C35: a batch runs to Done. *)
\* the destination paths of the episodes marked in the list, in list order
SelectedPaths ==
  LET chosen == SelectSeq(m.episodes, LAMBDA ep : ep.Selected)
  IN [i \in 1..Len(chosen) |-> JoinPath(m.outputDir, currentFile(chosen[i]))]

KeyOnly == cmds' = cmds /\ workers' = workers /\ ~quit'

\* the step goes from phase from to phase to and changes nothing else of the
\* session: cursor, offset, search results, episodes and their flags included
OnlyPhase(from, to) ==
  (m.state = from /\ m'.state = to /\ KeyOnly) => m' = [m EXCEPT !.state = to]

\* C36: opening a preview and closing it is a round trip: the step from
\* SearchResults to PreviewPodcast and the step back, and the step from
\* Selecting to PreviewEpisode and the step back, change the phase only, so
\* the session after the close is the session before the open.
C36_PreviewRoundTrip ==
  [][/\ OnlyPhase(stateSearchResults, statePreviewPodcast)
     /\ OnlyPhase(statePreviewPodcast, stateSearchResults)
     /\ OnlyPhase(stateSelecting, statePreviewEpisode)
     /\ OnlyPhase(statePreviewEpisode, stateSelecting)]_vars

\* the preview of the second episode is open, with an episode marked
C36_Witness ==
  /\ m.state = statePreviewEpisode
  /\ m.cursor = 1
  /\ \E i \in 1..Len(m.episodes) : m.episodes[i].Selected

(* C37: the tags of a batch of the windowed program. *)
\* C37: every file of a batch is tagged with the artist and album of the
\* podcast info that was current when the batch was started.
C37_TagsOfBatchPodcast ==
  [][\A t \in tags' \ tags :
       /\ t.artist = gui.batch.info.Artist
       /\ t.album = gui.batch.info.Name]_vars

(* C38: one batch at a time in the windowed program. *)
\* startDownload starts its goroutine
StartsBatch == gui'.spawned = gui.spawned + 1 /\ gui'.batch # gui.batch

\* C38: a download goroutine is started only when none is running, so a
\* press of Download during a batch starts nothing, and a.downloading is true
\* as long as the goroutine of a batch has not ended.
C38_OneBatch ==
  [][/\ StartsBatch => gui.batch = NoBatch /\ ~gui.downloading
     /\ gui'.batch # NoBatch => gui'.downloading]_vars

\* the episode view, with its Download button, is shown while the goroutine
\* of a batch is in its loop
C38_Witness ==
  /\ gui.batch.pc \in {"status", "download", "tag"}
  /\ gui.view = "episodes"
  /\ gui.downloading

(* C39: the destination paths of one podcast. *)
\* C39: two different episodes of the list have different file names, so
\* their destination paths in the folder of the podcast differ and the file
\* of one is never taken for the file of the other by os.Stat.
C39_DistinctPaths ==
  \A i, j \in 1..Len(m.episodes) :
    i # j => currentFile(m.episodes[i]) # currentFile(m.episodes[j])

\* two episodes with the same title have both been written to disk
C39_Witness ==
  /\ Len(m.episodes) = 2
  /\ m.episodes[1].Title = m.episodes[2].Title
  /\ \A i \in 1..2 : JoinPath(m.outputDir, currentFile(m.episodes[i])) \in disk

====
